---- MODULE Spec2Model ----
(***************************************************************************)
(* Model of the cross-provider reconciliation pipeline of callcase-agent:  *)
(* call deduplication (src/pipeline/dedupe.ts), evidence extraction and    *)
(* validation (src/pipeline/quotes.ts), account matching                   *)
(* (src/webapp/account-matcher.ts), account resolution by name             *)
(* (src/mcp/server.ts), account-name normalization, the composite provider *)
(* and the corpus and story flow of the web app (src/services/caseflow.ts).*)
(*                                                                         *)
(* Conventions.                                                            *)
(*  - A JavaScript string is a sequence of one-character strings, so that  *)
(*    lower-casing, regular-expression replacement, split, includes and    *)
(*    lexicographic comparison are computed character by character.        *)
(*  - A nullable value is None (the empty sequence) or Some(v) (<<v>>).    *)
(*  - Fractions are kept exact: a ratio p/q is compared with a threshold   *)
(*    t/100 as 100*p >= t*q, and rule scores are scaled by 100.            *)
(***************************************************************************)
EXTENDS Integers, Sequences, FiniteSets, TLC

VARIABLES
    calls,          \* dedupeCalls: the input list of CanonicalCall
    dedupeResult,   \* dedupeCalls: None, or Some({calls, duplicates}) of the first run
    rerunResult,    \* dedupeCalls applied to dedupeResult.calls: None or Some(...)
    xCalls,         \* extractFromCalls: the calls handed to the extractor
    xPc,            \* extractFromCalls: "loop", "awaiting", "done" or "failed"
    xIndex,         \* extractFromCalls: position of the for loop in xCalls (1-based)
    xRequests,      \* the extraction requests issued so far: the call each is for
    xReplies,       \* the reasoning service's replies received so far, one per call
    xQuotes,        \* extractFromCalls: the local array `quotes`
    xClaims,        \* extractFromCalls: the local array `claims`
    xResult,        \* extractFromCalls: None, or Some({quotes, claims}) returned
    generatorInput, \* buildStory: None, or Some({quotes, claims}) passed to generateAll
    gongAccounts,   \* matchSharedAccounts: input.gongAccounts, a list of DiscoveredAccount
    grainAccounts,  \* matchSharedAccounts: input.grainAccounts
    openaiApiKey,   \* matchSharedAccounts: input.openaiApiKey, None or Some(string)
    mPc,            \* matchSharedAccounts: "start", "awaiting", "done" or "failed"
    mLocal,         \* the maps, used-key sets and matches after the exact and heuristic passes
    mRequest,       \* llmMatchUnresolved: None, or Some({gong, grain}) keys sent in the prompt
    mReply,         \* llmMatchUnresolved: None, or Some(outcome of the completion request)
    mResult,        \* matchSharedAccounts: None, or Some(list of SharedAccountOption)
    requested,      \* resolveSelectedAccount: None, or Some(accountDisplayName)
    resolved,       \* resolveSelectedAccount: None, or Some(selected account or error)
    nName,          \* normalizeAccountName: the name it is applied to
    nOnce,          \* None, or Some(normalizeAccountName(nName))
    nTwice,         \* None, or Some(normalizeAccountName applied to Val(nOnce))
    cShared,        \* CompositeProvider: options.sharedAccountsOnly
    cPc,            \* CompositeProvider.discoverAccounts: "idle", "start", "awaiting", "done", "failed"
    cAccounts,      \* None, or Some(<<gong list, grain list>>) the providers resolved with
    cResult,        \* CompositeProvider.discoverAccounts: None, or Some(list returned)
    fOp,            \* the running operation: "none", "discover", "export" or "build"
    fPc,            \* its position: "idle", "start", "awaiting", a write step, "done", "failed"
    fGong,          \* the Gong request: [status, value], status "idle", "pending", "resolved", "rejected"
    fGrain,         \* the Grain request, likewise
    fMatch,         \* None, or Some(accounts handed to matchSharedAccounts)
    fDedupe,        \* None, or Some(result of dedupeCalls on the combined calls)
    fWritten,       \* the files written so far, in order
    fRequests,      \* the extraction and generation requests issued so far, in order
    fError,         \* None, or Some(error the operation rejected with)
    fStoryKnown,    \* buildStory: whether input.storyTypeId names a story type
    sA,             \* nameSimilarity: its first argument, a normalized key
    sB,             \* nameSimilarity: its second argument
    sScore          \* None, or Some(nameSimilarity(sA, sB))

dedupeVars == <<calls, dedupeResult, rerunResult>>
quoteVars == <<xCalls, xPc, xIndex, xRequests, xReplies, xQuotes, xClaims, xResult,
              generatorInput>>
matchVars == <<gongAccounts, grainAccounts, openaiApiKey, mPc, mLocal, mRequest, mReply,
               mResult, requested, resolved>>
normVars == <<nName, nOnce, nTwice>>
compVars == <<cShared, cPc, cAccounts, cResult>>
flowVars == <<fOp, fPc, fGong, fGrain, fMatch, fDedupe, fWritten, fRequests, fError,
              fStoryKnown>>
simVars == <<sA, sB, sScore>>
extraVars == <<normVars, compVars, flowVars, simVars>>
vars == <<dedupeVars, quoteVars, matchVars, extraVars>>

None == <<>>
Some(v) == <<v>>
IsSome(o) == o # <<>>
Val(o) == o[1]

\* No account discovery is in progress
MatchIdle ==
    /\ gongAccounts = <<>> /\ grainAccounts = <<>> /\ openaiApiKey = None /\ mPc = "idle"
    /\ mLocal = None /\ mRequest = None /\ mReply = None /\ mResult = None
    /\ requested = None /\ resolved = None

\* normalizeAccountName, the composite provider and the corpus flow are not running
NormIdle == nName = <<>> /\ nOnce = None /\ nTwice = None
CompositeIdle == cShared = TRUE /\ cPc = "idle" /\ cAccounts = None /\ cResult = None
NoRequest == [status |-> "idle", value |-> <<>>]
FlowIdle ==
    /\ fOp = "none" /\ fPc = "idle" /\ fGong = NoRequest /\ fGrain = NoRequest
    /\ fMatch = None /\ fDedupe = None /\ fWritten = <<>> /\ fRequests = <<>> /\ fError = None
    /\ fStoryKnown = TRUE
SimIdle == sA = <<>> /\ sB = <<>> /\ sScore = None
ExtraIdle == NormIdle /\ CompositeIdle /\ FlowIdle /\ SimIdle

Max2(a, b) == IF a >= b THEN a ELSE b
Min2(a, b) == IF a <= b THEN a ELSE b
AbsDiff(a, b) == IF a >= b THEN a - b ELSE b - a

(***************************************************************************)
(* Characters                                                              *)
(***************************************************************************)
UpperSeq == <<"A","B","C","D","E","F","G","H","I","J","K","L","M",
              "N","O","P","Q","R","S","T","U","V","W","X","Y","Z">>
LowerSeq == <<"a","b","c","d","e","f","g","h","i","j","k","l","m",
              "n","o","p","q","r","s","t","u","v","w","x","y","z">>
DigitSeq == <<"0","1","2","3","4","5","6","7","8","9">>

UpperChars == {UpperSeq[i] : i \in 1..Len(UpperSeq)}
LowerChars == {LowerSeq[i] : i \in 1..Len(LowerSeq)}
DigitChars == {DigitSeq[i] : i \in 1..Len(DigitSeq)}
SpaceChars == {" ", "\t", "\n"}

LowerOf == [c \in UpperChars |-> LowerSeq[CHOOSE i \in 1..Len(UpperSeq) : UpperSeq[i] = c]]

\* String.prototype.toLowerCase on one ASCII character
toLowerChar(c) == IF c \in UpperChars THEN LowerOf[c] ELSE c

\* UTF-16 code unit order of the ASCII characters the model uses
AsciiOrder == <<"\t", "\n", " ", "!", "$", "%", "&", ",", "-", ".", "/">> \o DigitSeq
              \o <<":", "?">> \o UpperSeq \o <<"_">> \o LowerSeq
CodeOf == [c \in {AsciiOrder[i] : i \in 1..Len(AsciiOrder)} |->
              CHOOSE i \in 1..Len(AsciiOrder) : AsciiOrder[i] = c]

(***************************************************************************)
(* String primitives                                                       *)
(***************************************************************************)
toLowerCase(s) == [i \in 1..Len(s) |-> toLowerChar(s[i])]

\* s.trim(): strip white space at both ends
RECURSIVE trimStart(_)
trimStart(s) == IF s # <<>> /\ s[1] \in SpaceChars THEN trimStart(Tail(s)) ELSE s
RECURSIVE trimEnd(_)
trimEnd(s) ==
    IF s # <<>> /\ s[Len(s)] \in SpaceChars THEN trimEnd(SubSeq(s, 1, Len(s) - 1)) ELSE s
trim(s) == trimEnd(trimStart(s))

\* s.replace(/\s+/g, " "): every maximal run of white space becomes one space
RECURSIVE collapseSpaces(_)
collapseSpaces(s) ==
    IF s = <<>> THEN <<>>
    ELSE IF s[1] \in SpaceChars
         THEN <<" ">> \o collapseSpaces(trimStart(s))
         ELSE <<s[1]>> \o collapseSpaces(Tail(s))

\* a.includes(b)
includes(a, b) ==
    \E i \in 0..(Len(a) - Len(b)) : SubSeq(a, i + 1, i + Len(b)) = b

\* \w of a regular expression
WordChars == UpperChars \cup LowerChars \cup DigitChars \cup {"_"}

wordAt(s, i) == i >= 1 /\ i <= Len(s) /\ s[i] \in WordChars

\* \b holds between positions i-1 and i of s
isBoundary(s, i) == wordAt(s, i - 1) # wordAt(s, i)

\* the alternative alt, followed by \b, matches s at position i
matchesAt(s, i, alt, ignoreCase) ==
    /\ i + Len(alt) - 1 <= Len(s)
    /\ isBoundary(s, i + Len(alt))
    /\ (IF ignoreCase THEN toLowerCase(SubSeq(s, i, i + Len(alt) - 1))
                      ELSE SubSeq(s, i, i + Len(alt) - 1)) = alt

\* s.split(" "): the pieces between single spaces, empty pieces included
RECURSIVE splitSpace(_, _)
splitSpace(s, cur) ==
    IF s = <<>> THEN <<cur>>
    ELSE IF s[1] = " " THEN <<cur>> \o splitSpace(Tail(s), <<>>)
         ELSE splitSpace(Tail(s), Append(cur, s[1]))
split(s) == splitSpace(s, <<>>)

\* a <= b on strings: lexicographic by code unit
RECURSIVE strLeq(_, _)
strLeq(a, b) ==
    IF a = <<>> THEN TRUE
    ELSE IF b = <<>> THEN FALSE
    ELSE IF a[1] = b[1] THEN strLeq(Tail(a), Tail(b))
    ELSE CodeOf[a[1]] < CodeOf[b[1]]

SeqToSet(s) == {s[i] : i \in 1..Len(s)}

(***************************************************************************)
(* Call deduplication: src/pipeline/dedupe.ts                              *)
(*                                                                         *)
(* A CanonicalCall is a record                                             *)
(*   provider, providerCallId, title, transcriptText : strings             *)
(*   occurredAt      : minutes since a fixed instant; it stands for a UTC  *)
(*                     ISO-8601 timestamp, whose string order is its time  *)
(*                     order                                               *)
(*   durationSeconds : None or Some(n)                                     *)
(*   segments        : sequence of [speaker, text, startMs]                *)
(*   recordingUrl    : metadata.recordingUrl, None when absent or no string*)
(*   dedupSources    : metadata.dedupSources, <<>> when absent             *)
(***************************************************************************)

\* /[^a-z0-9\s]/
IsOtherChar(c) == c \notin LowerChars \cup DigitChars \cup SpaceChars

normalizeText(input) ==
    LET lower == toLowerCase(input)
        blanked == [i \in 1..Len(lower) |-> IF IsOtherChar(lower[i]) THEN " " ELSE lower[i]]
    IN trim(collapseSpaces(blanked))

tokenize(input) ==
    LET parts == split(normalizeText(input))
    IN SelectSeq([i \in 1..Len(parts) |-> trim(parts[i])], LAMBDA t : Len(t) >= 3)

\* The ratio overlap / max(|A|, |B|) as <<numerator, denominator>>; 0 is <<0, 1>>
overlapOfSets(tokensA, tokensB) ==
    IF tokensA = {} \/ tokensB = {} THEN <<0, 1>>
    ELSE <<Cardinality(tokensA \cap tokensB),
           Max2(Cardinality(tokensA), Cardinality(tokensB))>>
overlapSimilarity(a, b) == overlapOfSets(SeqToSet(tokenize(a)), SeqToSet(tokenize(b)))

\* ratio >= pct / 100
RatioAtLeast(ratio, pct) == 100 * ratio[1] >= pct * ratio[2]

\* The SHA-1 digest is modelled as an injective tag of the normalized text;
\* the empty string stands for "no hash".
sha1(normalized) == IF normalized = <<>> THEN <<>> ELSE <<"sha1", normalized>>
transcriptHash(text) == sha1(normalizeText(text))

\* asString applied to metadata.recordingUrl
someIfNonEmpty(trimmed) == IF Len(trimmed) > 0 THEN Some(trimmed) ELSE None
asString(value) == IF IsSome(value) THEN someIfNonEmpty(trim(Val(value))) ELSE None

\* value.toLowerCase().replace(/\/?$/, "")
dropTrailingSlash(s) ==
    IF s # <<>> /\ s[Len(s)] = "/" THEN SubSeq(s, 1, Len(s) - 1) ELSE s
\* A variant of normalizeUrl that keeps the trailing slash
normalizeUrlKeepSlash(value) == toLowerCase(value)

normalizeUrl(value) == dropTrailingSlash(toLowerCase(value))

\* a.durationSeconds ?? 0
durationOrZero(call) == IF IsSome(call.durationSeconds) THEN Val(call.durationSeconds) ELSE 0

TitleWindowMinutes == 7
TitleWindowSeconds == 180
TitleThresholdPct == 72
TranscriptWindowMinutes == 45
TranscriptWindowSeconds == 420
TranscriptThresholdPct == 86

\* A variant of evaluateRules: the transcript-hash rule without its non-empty test
evaluateRulesEmptyHash(a, b, urlA, urlB, hashA, hashB, timeDeltaMinutes, durationDelta) ==
    IF a.provider = b.provider /\ a.providerCallId = b.providerCallId
    THEN Some([reason |-> "same_provider_call_id", score |-> 100])
    ELSE IF IsSome(urlA) /\ IsSome(urlB) /\ normalizeUrl(Val(urlA)) = normalizeUrl(Val(urlB))
    THEN Some([reason |-> "same_recording_url", score |-> 99])
    ELSE IF hashA = hashB
    THEN Some([reason |-> "same_transcript_hash", score |-> 97])
    ELSE IF /\ timeDeltaMinutes <= TitleWindowMinutes
            /\ durationDelta <= TitleWindowSeconds
            /\ RatioAtLeast(overlapSimilarity(a.title, b.title), TitleThresholdPct)
    THEN Some([reason |-> "matching_time_and_title", score |-> 94])
    ELSE IF /\ timeDeltaMinutes <= TranscriptWindowMinutes
            /\ durationDelta <= TranscriptWindowSeconds
            /\ RatioAtLeast(overlapSimilarity(a.transcriptText, b.transcriptText),
                            TranscriptThresholdPct)
    THEN Some([reason |-> "high_transcript_similarity", score |-> 90])
    ELSE None

\* The body of evaluateDuplicate, given its local constants
evaluateRules(a, b, urlA, urlB, hashA, hashB, timeDeltaMinutes, durationDelta) ==
    IF a.provider = b.provider /\ a.providerCallId = b.providerCallId
    THEN Some([reason |-> "same_provider_call_id", score |-> 100])
    ELSE IF IsSome(urlA) /\ IsSome(urlB) /\ normalizeUrl(Val(urlA)) = normalizeUrl(Val(urlB))
    THEN Some([reason |-> "same_recording_url", score |-> 99])
    ELSE IF hashA = hashB /\ Len(hashA) > 0
    THEN Some([reason |-> "same_transcript_hash", score |-> 97])
    ELSE IF /\ timeDeltaMinutes <= TitleWindowMinutes
            /\ durationDelta <= TitleWindowSeconds
            /\ RatioAtLeast(overlapSimilarity(a.title, b.title), TitleThresholdPct)
    THEN Some([reason |-> "matching_time_and_title", score |-> 94])
    ELSE IF /\ timeDeltaMinutes <= TranscriptWindowMinutes
            /\ durationDelta <= TranscriptWindowSeconds
            /\ RatioAtLeast(overlapSimilarity(a.transcriptText, b.transcriptText),
                            TranscriptThresholdPct)
    THEN Some([reason |-> "high_transcript_similarity", score |-> 90])
    ELSE None

evaluateDuplicate(a, b) ==
    evaluateRules(a, b,
        asString(a.recordingUrl), asString(b.recordingUrl),
        transcriptHash(a.transcriptText), transcriptHash(b.transcriptText),
        AbsDiff(a.occurredAt, b.occurredAt),
        AbsDiff(durationOrZero(a), durationOrZero(b)))

\* qualityScore scaled by 2000:
\* 0.6*segments + 1.2*withSpeaker + 1.2*withTimestamp + min(50, length/400)
qualityScore(call) ==
    LET segmentCount == Len(call.segments)
        speakerCount == Cardinality({i \in 1..segmentCount :
                            IsSome(call.segments[i].speaker)
                            /\ Val(call.segments[i].speaker) # <<>>})
        tsCount == Cardinality({i \in 1..segmentCount : IsSome(call.segments[i].startMs)})
        transcriptLen == Len(call.transcriptText)
    IN segmentCount * 1200 + speakerCount * 2400 + tsCount * 2400
       + Min2(100000, 5 * transcriptLen)

callKey(call) == call.provider \o <<":">> \o call.providerCallId

preferByScore(a, b, scoreA, scoreB) ==
    IF scoreB > scoreA THEN b
    ELSE IF scoreA > scoreB THEN a
    ELSE IF strLeq(callKey(a), callKey(b)) THEN a ELSE b
\* A variant of choosePreferred: on equal scores the kept entry stays
choosePreferredExisting(a, b) == IF qualityScore(b) > qualityScore(a) THEN b ELSE a

choosePreferred(a, b) == preferByScore(a, b, qualityScore(a), qualityScore(b))

mergeMetadata(kept, dropped) ==
    [kept EXCEPT !.dedupSources =
        Append(kept.dedupSources,
               [provider |-> dropped.provider,
                providerCallId |-> dropped.providerCallId,
                title |-> dropped.title,
                occurredAt |-> dropped.occurredAt,
                durationSeconds |-> dropped.durationSeconds])]

\* [...calls].sort((a, b) => a.occurredAt.localeCompare(b.occurredAt)): stable
RECURSIVE insertByTime(_, _)
insertByTime(sorted, call) ==
    IF sorted = <<>> THEN <<call>>
    ELSE IF sorted[Len(sorted)].occurredAt <= call.occurredAt THEN Append(sorted, call)
    ELSE Append(insertByTime(SubSeq(sorted, 1, Len(sorted) - 1), call), sorted[Len(sorted)])
RECURSIVE sortByOccurredAt(_)
sortByOccurredAt(list) ==
    IF list = <<>> THEN <<>>
    ELSE insertByTime(sortByOccurredAt(SubSeq(list, 1, Len(list) - 1)), list[Len(list)])

\* The inner loop of dedupeCalls: the index of the kept call with the highest
\* duplicate score, the earliest one on ties; 0 when no kept call matches.
\* A variant of isBetterMatch: the first matching kept call wins
isBetterMatchFirst(match, bestMatch) == IsSome(match) /\ ~IsSome(bestMatch)

isBetterMatch(match, bestMatch) ==
    IsSome(match) /\ (~IsSome(bestMatch) \/ Val(match).score > Val(bestMatch).score)
RECURSIVE bestMatchFrom(_, _, _, _, _)
RECURSIVE bestMatchWith(_, _, _, _, _, _)
bestMatchWith(kept, call, index, bestIndex, bestMatch, match) ==
    IF isBetterMatch(match, bestMatch)
    THEN bestMatchFrom(kept, call, index + 1, index, match)
    ELSE bestMatchFrom(kept, call, index + 1, bestIndex, bestMatch)
bestMatchFrom(kept, call, index, bestIndex, bestMatch) ==
    IF index > Len(kept) THEN [index |-> bestIndex, match |-> bestMatch]
    ELSE bestMatchWith(kept, call, index, bestIndex, bestMatch,
                       evaluateDuplicate(kept[index], call))

\* One iteration of the outer loop of dedupeCalls
\* A variant of collapse: no audit entry when the incoming call replaces the kept one
collapseUnrecorded(acc, call, bestMatchIndex, bestMatch, existing, preferred) ==
    [calls |-> [acc.calls EXCEPT ![bestMatchIndex] =
                    IF preferred # existing THEN mergeMetadata(preferred, existing)
                    ELSE mergeMetadata(existing, call)],
     duplicates |->
        IF preferred # existing THEN acc.duplicates
        ELSE Append(acc.duplicates,
                [keptCallId |-> preferred.providerCallId,
                 keptProvider |-> preferred.provider,
                 droppedCallId |-> call.providerCallId,
                 droppedProvider |-> call.provider,
                 reason |-> bestMatch.reason])]

\* A variant of collapse: the kept entry is removed together with the call
collapseRemovingKept(acc, call, bestMatchIndex, bestMatch, existing, preferred) ==
    [calls |-> SubSeq(acc.calls, 1, bestMatchIndex - 1)
                 \o SubSeq(acc.calls, bestMatchIndex + 1, Len(acc.calls)),
     duplicates |-> Append(acc.duplicates,
        [keptCallId |-> preferred.providerCallId,
         keptProvider |-> preferred.provider,
         droppedCallId |-> (IF preferred = existing THEN call ELSE existing).providerCallId,
         droppedProvider |-> (IF preferred = existing THEN call ELSE existing).provider,
         reason |-> bestMatch.reason])]

\* Lines 39-55: collapse `call` with kept[bestMatchIndex], `preferred` being the
\* one of the two that choosePreferred returned
collapse(acc, call, bestMatchIndex, bestMatch, existing, preferred) ==
    [calls |-> [acc.calls EXCEPT ![bestMatchIndex] =
                    IF preferred # existing THEN mergeMetadata(preferred, existing)
                    ELSE mergeMetadata(existing, call)],
     duplicates |-> Append(acc.duplicates,
        [keptCallId |-> preferred.providerCallId,
         keptProvider |-> preferred.provider,
         droppedCallId |-> (IF preferred = existing THEN call ELSE existing).providerCallId,
         droppedProvider |-> (IF preferred = existing THEN call ELSE existing).provider,
         reason |-> bestMatch.reason])]

dedupeWithBest(acc, call, best) ==
    IF best.index = 0 THEN [acc EXCEPT !.calls = Append(acc.calls, call)]
    ELSE collapse(acc, call, best.index, Val(best.match), acc.calls[best.index],
                  choosePreferred(acc.calls[best.index], call))

dedupeStep(acc, call) == dedupeWithBest(acc, call, bestMatchFrom(acc.calls, call, 1, 0, None))

RECURSIVE dedupeLoop(_, _)
dedupeLoop(sorted, acc) ==
    IF sorted = <<>> THEN acc ELSE dedupeLoop(Tail(sorted), dedupeStep(acc, Head(sorted)))

dedupeCalls(list) == dedupeLoop(sortByOccurredAt(list), [calls |-> <<>>, duplicates |-> <<>>])

(***************************************************************************)
(* Inputs of dedupeCalls                                                   *)
(***************************************************************************)
Gong == <<"g","o","n","g">>
Grain == <<"g","r","a","i","n">>

mkCall(provider, id, title, occurredAt, durationSeconds, transcriptText, segments, url) ==
    [provider |-> provider, providerCallId |-> id, title |-> title,
     occurredAt |-> occurredAt, durationSeconds |-> durationSeconds,
     transcriptText |-> transcriptText, segments |-> segments,
     recordingUrl |-> url, dedupSources |-> <<>>]

mkSegment(speaker, text, startMs) == [speaker |-> speaker, text |-> text, startMs |-> startMs]

TextSaved == <<"W","e"," ","s","a","v","e","d"," ","$","2","0","0","k">>
TextSavedLoud == <<"w","e"," "," ","S","A","V","E","D"," ","$","2","0","0","K","!">>
TextSavedTwice == <<"s","a","v","e","d"," ","2","0","0","k"," ","s","a","v","e","d">>
TextChurn == <<"c","h","u","r","n"," ","r","i","s","k">>
TextPricing == <<"p","r","i","c","i","n","g"," ","t","a","l","k">>
TextPunct == <<"?","!">>

SegmentsRich == <<mkSegment(Some(<<"A">>), <<"W","e"," ","s","a","v","e","d">>, Some(1000)),
                  mkSegment(Some(<<"B">>), <<"$","2","0","0","k">>, Some(5000))>>
SegmentsOne == <<mkSegment(Some(<<"A">>), TextSaved, Some(1000))>>
SegmentsBare == <<mkSegment(None, TextPunct, None)>>

UrlAbc == <<"h","t","t","p","s",":","/","/","x","/","c","/","a","b","c">>
UrlAbcSlash == <<"H","T","T","P","S",":","/","/","x","/","c","/","a","b","c","/">>
UrlSpace == <<"x","/","d"," ">>
UrlSpaceSlash == <<"x","/","d"," ","/">>

\* The calls the inputs are drawn from.  Between them every rule of
\* evaluateDuplicate fires, at and just beyond its thresholds.
CallPool ==
    << mkCall(Gong,  <<"g","-","1">>, <<"Q","B","R">>,     0,   Some(1800), TextSaved,      SegmentsOne,  None),
       mkCall(Grain, <<"r","-","1">>, <<"Q","B","R">>,     0,   Some(1800), TextSavedLoud,  <<>>,         None),
       mkCall(Grain, <<"r","-","2">>, <<"q","b","r","!">>,     7,   Some(1980), TextChurn,      <<>>,         None),
       mkCall(Grain, <<"r","-","3">>, <<"K","i","c","k","o","f","f">>, 45,  Some(2220), TextSavedTwice, <<>>,         None),
       mkCall(Gong,  <<"g","-","2">>, <<"R","e","n","e","w","a","l">>, 100, None,       TextPunct,      SegmentsBare, Some(UrlAbc)),
       mkCall(Grain, <<"r","-","4">>, <<"R","e","n","e","w","a","l"," ","s","y","n","c">>, 200, None,   TextSavedLoud,  SegmentsRich, Some(UrlAbcSlash)),
       mkCall(Gong,  <<"g","-","1">>, <<"I","n","t","r","o">>,   300, Some(60),   <<>>,           <<>>,         Some(<<" ">>)),
       mkCall(Grain, <<"r","-","5">>, <<"Q","B","R">>,     8,   Some(1619), TextPricing,    <<>>,         None),
       mkCall(Grain, <<"r","-","6">>, <<"K","i","c","k","o","f","f">>, 46,  Some(2641), TextSavedTwice, SegmentsBare, None),
       mkCall(Grain, <<"r","-","7">>, <<"Q","B","R">>,     1,   Some(2100), TextPricing,    <<>>,         Some(UrlSpace)),
       mkCall(Gong,  <<"g","-","3">>, <<"D","e","m","o">>,   500, None,       TextPunct,      <<>>,         Some(UrlSpaceSlash)) >>

MaxCalls == 3

RECURSIVE SeqsUpTo(_, _)
SeqsUpTo(S, n) ==
    IF n = 0 THEN {<<>>}
    ELSE LET shorter == SeqsUpTo(S, n - 1)
         IN shorter \cup {Append(q, x) : q \in {r \in shorter : Len(r) = n - 1}, x \in S}

CallLists == SeqsUpTo(SeqToSet(CallPool), MaxCalls)

(***************************************************************************)
(* Specification of the deduplicator: an input list is drawn, dedupeCalls  *)
(* is applied to it, and then once more to the calls it returned.          *)
(***************************************************************************)
QuotesIdle ==
    /\ xCalls = <<>> /\ xPc = "idle" /\ xIndex = 0 /\ xRequests = <<>> /\ xReplies = <<>>
    /\ xQuotes = <<>> /\ xClaims = <<>> /\ xResult = None /\ generatorInput = None

InitDedupe ==
    /\ calls \in CallLists
    /\ dedupeResult = None
    /\ rerunResult = None
    /\ QuotesIdle
    /\ MatchIdle
    /\ ExtraIdle

RunDedupe ==
    /\ dedupeResult = None
    /\ dedupeResult' = Some(dedupeCalls(calls))
    /\ UNCHANGED <<calls, rerunResult, quoteVars, matchVars, extraVars>>

RerunDedupe ==
    /\ IsSome(dedupeResult)
    /\ rerunResult = None
    /\ rerunResult' = Some(dedupeCalls(Val(dedupeResult).calls))
    /\ UNCHANGED <<calls, dedupeResult, quoteVars, matchVars, extraVars>>

NextDedupe == RunDedupe \/ RerunDedupe

SpecDedupe == InitDedupe /\ [][NextDedupe]_vars

(***************************************************************************)
(* Properties of the deduplicator                                          *)
(***************************************************************************)
firstRun == Val(dedupeResult)
secondRun == Val(rerunResult)

\* C1: for every input list, the number of DuplicateResolution entries returned
\* plus the number of calls returned equals the number of input calls (checked
\* for the first run on `calls` and for the run on its own output).
C1_Conservation ==
    /\ IsSome(dedupeResult) =>
          Len(firstRun.duplicates) + Len(firstRun.calls) = Len(calls)
    /\ IsSome(rerunResult) =>
          Len(secondRun.duplicates) + Len(secondRun.calls) = Len(firstRun.calls)

\* A run on three calls that collapsed two of them and kept two calls
C1_Witness ==
    /\ IsSome(dedupeResult)
    /\ Len(calls) = 3
    /\ Len(firstRun.duplicates) = 1
    /\ Len(firstRun.calls) = 2

\* C2: dedupe is idempotent: running dedupeCalls on the calls returned by a
\* previous run returns the same calls and records no duplicate.
C2_Idempotent ==
    IsSome(rerunResult) =>
        /\ secondRun.duplicates = <<>>
        /\ secondRun.calls = firstRun.calls

\* C3: provenance is never lost: for every DuplicateResolution entry of a run,
\* the dropped call's provider and call id appear in metadata.dedupSources of
\* some returned call.
recordsSource(call, provider, id) ==
    \E k \in 1..Len(call.dedupSources) :
        /\ call.dedupSources[k].provider = provider
        /\ call.dedupSources[k].providerCallId = id

C3_ProvenanceKept ==
    IsSome(dedupeResult) =>
        \A d \in 1..Len(firstRun.duplicates) :
            \E c \in 1..Len(firstRun.calls) :
                recordsSource(firstRun.calls[c],
                              firstRun.duplicates[d].droppedProvider,
                              firstRun.duplicates[d].droppedCallId)

\* C10: the duplicate test reports the first rule whose condition holds, in
\* the order same_provider_call_id (1.00), same_recording_url (0.99),
\* same_transcript_hash (0.97, non-empty normalized transcripts only),
\* matching_time_and_title (0.94), high_transcript_similarity (0.90), and no
\* duplicate when none holds; and two calls with different ids and the same
\* non-empty transcript collapse to one call with exactly one duplicate entry.
RuleTable ==
    << [reason |-> "same_provider_call_id", score |-> 100],
       [reason |-> "same_recording_url", score |-> 99],
       [reason |-> "same_transcript_hash", score |-> 97],
       [reason |-> "matching_time_and_title", score |-> 94],
       [reason |-> "high_transcript_similarity", score |-> 90] >>

hasUrl(call) == IsSome(call.recordingUrl) /\ trim(Val(call.recordingUrl)) # <<>>

withinWindow(a, b, minutes, seconds) ==
    /\ a.occurredAt - b.occurredAt <= minutes
    /\ b.occurredAt - a.occurredAt <= minutes
    /\ durationOrZero(a) - durationOrZero(b) <= seconds
    /\ durationOrZero(b) - durationOrZero(a) <= seconds

RuleHolds(k, a, b) ==
    CASE k = 1 -> a.provider = b.provider /\ a.providerCallId = b.providerCallId
      [] k = 2 -> /\ hasUrl(a) /\ hasUrl(b)
                  /\ normalizeUrl(trim(Val(a.recordingUrl)))
                       = normalizeUrl(trim(Val(b.recordingUrl)))
      [] k = 3 -> /\ normalizeText(a.transcriptText) = normalizeText(b.transcriptText)
                  /\ normalizeText(a.transcriptText) # <<>>
      [] k = 4 -> /\ withinWindow(a, b, 7, 180)
                  /\ RatioAtLeast(overlapSimilarity(a.title, b.title), 72)
      [] k = 5 -> /\ withinWindow(a, b, 45, 420)
                  /\ RatioAtLeast(overlapSimilarity(a.transcriptText, b.transcriptText), 86)

FirstRuleReported(a, b) ==
    LET holding == {k \in 1..5 : RuleHolds(k, a, b)}
    IN IF holding = {} THEN evaluateDuplicate(a, b) = None
       ELSE evaluateDuplicate(a, b) =
                Some(RuleTable[CHOOSE k \in holding : \A j \in holding : k <= j])

sameTranscriptOtherId(a, b) ==
    /\ a.providerCallId # b.providerCallId
    /\ normalizeText(a.transcriptText) = normalizeText(b.transcriptText)
    /\ normalizeText(a.transcriptText) # <<>>

C10_FirstRuleWins ==
    /\ \A i, j \in 1..Len(calls) : FirstRuleReported(calls[i], calls[j])
    /\ (IsSome(dedupeResult) /\ Len(calls) = 2 /\ sameTranscriptOtherId(calls[1], calls[2]))
          => (Len(firstRun.calls) = 1 /\ Len(firstRun.duplicates) = 1)

\* Two calls with different ids whose transcripts differ in case, spacing and
\* punctuation only, collapsed by the transcript hash rule
C10_Witness ==
    /\ IsSome(dedupeResult)
    /\ Len(calls) = 2
    /\ sameTranscriptOtherId(calls[1], calls[2])
    /\ calls[1].transcriptText # calls[2].transcriptText
    /\ Len(firstRun.duplicates) = 1
    /\ firstRun.duplicates[1].reason = "same_transcript_hash"

\* C11 (as stated): two calls that are not the same provider call and whose
\* non-blank recording URLs are equal after lower-casing and removal of a
\* trailing slash are collapsed by dedupeCalls into one call with reason
\* same_recording_url.
sameProviderCall(a, b) == a.provider = b.provider /\ a.providerCallId = b.providerCallId

collapsedByUrl ==
    /\ Len(firstRun.calls) = 1
    /\ Len(firstRun.duplicates) = 1
    /\ firstRun.duplicates[1].reason = "same_recording_url"

sameUrlAsGiven(a, b) ==
    /\ hasUrl(a) /\ hasUrl(b)
    /\ normalizeUrl(Val(a.recordingUrl)) = normalizeUrl(Val(b.recordingUrl))

sameUrlTrimmed(a, b) ==
    /\ hasUrl(a) /\ hasUrl(b)
    /\ dropTrailingSlash(toLowerCase(trim(Val(a.recordingUrl))))
         = dropTrailingSlash(toLowerCase(trim(Val(b.recordingUrl))))

sortedCalls == sortByOccurredAt(calls)
loopBefore(k) == dedupeLoop(SubSeq(sortedCalls, 1, k - 1), [calls |-> <<>>, duplicates |-> <<>>])
loopAfter(k) == dedupeLoop(SubSeq(sortedCalls, 1, k), [calls |-> <<>>, duplicates |-> <<>>])

matchingKept(kept, call) == {i \in 1..Len(kept) : IsSome(evaluateDuplicate(kept[i], call))}
matchScore(kept, i, call) == Val(evaluateDuplicate(kept[i], call)).score
topMatch(kept, call) ==
    CHOOSE i \in matchingKept(kept, call) :
        \A j \in matchingKept(kept, call) :
            \/ matchScore(kept, i, call) > matchScore(kept, j, call)
            \/ (matchScore(kept, i, call) = matchScore(kept, j, call) /\ i <= j)

sameCallId(a, b) == a.provider = b.provider /\ a.providerCallId = b.providerCallId

\* `after` is `before` with `call` collapsed into the kept call at `best` and
\* nothing else changed
collapsedAt(before, after, call, best) ==
    /\ Len(after.calls) = Len(before.calls)
    /\ \A i \in 1..Len(before.calls) : i # best => after.calls[i] = before.calls[i]
    /\ after.calls[best] # before.calls[best]
    /\ \/ sameCallId(after.calls[best], before.calls[best])
       \/ sameCallId(after.calls[best], call)
    /\ Len(after.duplicates) = Len(before.duplicates) + 1
    /\ SubSeq(after.duplicates, 1, Len(before.duplicates)) = before.duplicates
    /\ after.duplicates[Len(after.duplicates)].reason
          = Val(evaluateDuplicate(before.calls[best], call)).reason

\* C17: a call that is a duplicate of several already-kept calls is collapsed
\* with exactly one of them, the one whose rule has the highest score and the
\* earliest such kept entry on ties, and every other kept call is unchanged.
C17_CollapsedWithTopMatch ==
    IsSome(dedupeResult) =>
        /\ loopAfter(Len(calls)) = firstRun
        /\ \A k \in 1..Len(calls) :
              Cardinality(matchingKept(loopBefore(k).calls, sortedCalls[k])) >= 2 =>
                  collapsedAt(loopBefore(k), loopAfter(k), sortedCalls[k],
                              topMatch(loopBefore(k).calls, sortedCalls[k]))

\* The last call matches the first kept call with score 97 and the second one
\* with score 99, and was collapsed with the second
C17_Witness ==
    /\ IsSome(dedupeResult) /\ Len(calls) = 3
    /\ Len(loopBefore(3).calls) = 2
    /\ matchingKept(loopBefore(3).calls, sortedCalls[3]) = {1, 2}
    /\ matchScore(loopBefore(3).calls, 1, sortedCalls[3])
         < matchScore(loopBefore(3).calls, 2, sortedCalls[3])
    /\ firstRun.calls[1] = loopBefore(3).calls[1]
    /\ firstRun.calls[2] # loopBefore(3).calls[2]

\* The last call matches both kept calls with the same score
C17_TieReached ==
    /\ IsSome(dedupeResult) /\ Len(calls) = 3
    /\ matchingKept(loopBefore(3).calls, sortedCalls[3]) = {1, 2}
    /\ matchScore(loopBefore(3).calls, 1, sortedCalls[3])
         = matchScore(loopBefore(3).calls, 2, sortedCalls[3])
    /\ firstRun.calls[1] # loopBefore(3).calls[1]
    /\ firstRun.calls[2] = loopBefore(3).calls[2]

\* The quality score as the sum 0.6*segments + 1.2*(segments with speaker)
\* + 1.2*(segments with timestamp) + min(50, length/400), in units of 1/400
statedQuality(call) ==
    LET withSpeaker == {i \in 1..Len(call.segments) :
                           call.segments[i].speaker \notin {None, Some(<<>>)}}
        withTimestamp == {i \in 1..Len(call.segments) : call.segments[i].startMs # None}
    IN 240 * Len(call.segments) + 480 * Cardinality(withSpeaker)
       + 480 * Cardinality(withTimestamp)
       + (IF Len(call.transcriptText) < 20000 THEN Len(call.transcriptText) ELSE 20000)

keyBefore(a, b) == callKey(a) # callKey(b) /\ strLeq(callKey(a), callKey(b))

keepsStated(a, b, keptCall) ==
    /\ statedQuality(a) > statedQuality(b) => keptCall = a
    /\ statedQuality(b) > statedQuality(a) => keptCall = b
    /\ (statedQuality(a) = statedQuality(b) /\ keyBefore(a, b)) => keptCall = a
    /\ (statedQuality(a) = statedQuality(b) /\ keyBefore(b, a)) => keptCall = b

withoutSources(call) == [call EXCEPT !.dedupSources = <<>>]

\* The k-th call of the sorted input was collapsed with the kept call `best`
\* and the stated one of the two was kept and named in the audit entry
keptAsStated(k, best) ==
    LET existing == loopBefore(k).calls[best]
        call == sortedCalls[k]
        keptCall == loopAfter(k).calls[best]
        entry == loopAfter(k).duplicates[Len(loopAfter(k).duplicates)]
    IN /\ keepsStated(withoutSources(existing), withoutSources(call), withoutSources(keptCall))
       /\ entry.keptProvider = keptCall.provider
       /\ entry.keptCallId = keptCall.providerCallId

isReturned(provider, id) ==
    \E c \in 1..Len(firstRun.calls) :
        firstRun.calls[c].provider = provider /\ firstRun.calls[c].providerCallId = id

C19_KeptIsReturned ==
    IsSome(dedupeResult) =>
        \A d \in 1..Len(firstRun.duplicates) :
            isReturned(firstRun.duplicates[d].keptProvider, firstRun.duplicates[d].keptCallId)

\* C20: when the input calls have pairwise distinct (provider,
\* providerCallId), every input call is either returned or recorded as
\* dropped exactly once, and no call is both returned and recorded as dropped.
distinctCallIds ==
    \A i, j \in 1..Len(calls) : i # j => ~sameCallId(calls[i], calls[j])

returnedAs(call) == {c \in 1..Len(firstRun.calls) : sameCallId(firstRun.calls[c], call)}
droppedAs(call) ==
    {d \in 1..Len(firstRun.duplicates) :
        /\ firstRun.duplicates[d].droppedProvider = call.provider
        /\ firstRun.duplicates[d].droppedCallId = call.providerCallId}

C20_ReturnedAndDroppedPartition ==
    (IsSome(dedupeResult) /\ distinctCallIds) =>
        /\ \A i \in 1..Len(calls) :
              Cardinality(returnedAs(calls[i])) + Cardinality(droppedAs(calls[i])) = 1
        /\ \A c \in 1..Len(firstRun.calls) :
              \E i \in 1..Len(calls) : sameCallId(calls[i], firstRun.calls[c])
        /\ \A d \in 1..Len(firstRun.duplicates) :
              \E i \in 1..Len(calls) :
                  /\ calls[i].provider = firstRun.duplicates[d].droppedProvider
                  /\ calls[i].providerCallId = firstRun.duplicates[d].droppedCallId

\* Three calls with distinct ids, of which one was returned and two were
\* dropped, one of them after it had been kept over the other
C20_Witness ==
    /\ IsSome(dedupeResult) /\ distinctCallIds /\ Len(calls) = 3
    /\ Len(firstRun.calls) = 1
    /\ Len(firstRun.duplicates) = 2
    /\ firstRun.duplicates[1].keptCallId = firstRun.duplicates[2].droppedCallId

(***************************************************************************)
(* Evidence extraction and validation: src/pipeline/quotes.ts              *)
(*                                                                         *)
(* The reasoning service's reply is                                        *)
(*   [kind |-> "null"]       no message content (the default document)     *)
(*   [kind |-> "malformed"]  content that JSON.parse or the mapping rejects*)
(*   [kind |-> "json", quotes |-> <<...>>, claims |-> <<...>>]             *)
(* A candidate quote of a reply has the fields of Partial<RawQuote>; each  *)
(* is None when missing (or, for quote and confidence, of the wrong type). *)
(* Confidence is scaled by 100.                                            *)
(***************************************************************************)

\* text.replace(/\s+/g, " ").trim().toLowerCase()
normalize(text) == toLowerCase(trim(collapseSpaces(text)))

MinQuoteLength == 16
MinSegmentNeedle == 12

\* A variant of quoteAppearsIn: the minimum-length test is missing
quoteAppearsInAnyLength(normalizedQuote, normalizedTranscript) ==
    includes(normalizedTranscript, normalizedQuote)

quoteAppearsIn(normalizedQuote, normalizedTranscript) ==
    Len(normalizedQuote) >= MinQuoteLength /\ includes(normalizedTranscript, normalizedQuote)
quoteAppearsInTranscript(quote, transcript) ==
    quoteAppearsIn(normalize(quote), normalize(transcript))

\* The index of the first segment whose normalized text contains or is
\* contained by the needle; 0 when there is none
RECURSIVE firstSegmentFrom(_, _, _)
firstSegmentFrom(segments, needle, index) ==
    IF index > Len(segments) THEN 0
    ELSE IF \/ includes(normalize(segments[index].text), needle)
            \/ includes(needle, normalize(segments[index].text))
         THEN index
         ELSE firstSegmentFrom(segments, needle, index + 1)

segmentForNeedle(call, needle) ==
    IF Len(needle) < MinSegmentNeedle THEN 0 ELSE firstSegmentFrom(call.segments, needle, 1)
findSegmentForText(call, text) == segmentForNeedle(call, normalize(text))

\* a ?? b, and a || b on strings
orElse(a, b) == IF IsSome(a) THEN a ELSE b
orIfEmpty(a, b) == IF a # <<>> THEN a ELSE b

\* the attribution without the speaker of the segment
attributeQuoteGivenSpeaker(raw, call, segmentMatch) ==
    [quote |-> raw.quote,
     speaker |-> raw.speaker,
     metricValue |-> raw.metricValue,
     metricType |-> raw.metricType,
     reason |-> raw.reason,
     sourceCallId |-> orIfEmpty(raw.sourceCallId, call.providerCallId),
     sourceCallTitle |-> call.title,
     sourceCallDate |-> call.occurredAt,
     sourceTimestampMs |-> orElse(raw.sourceTimestampMs,
                    IF segmentMatch = 0 THEN None ELSE call.segments[segmentMatch].startMs),
     confidence |-> raw.confidence]

attributeQuote(raw, call, segmentMatch) ==
    [quote |-> raw.quote,
     speaker |-> orElse(raw.speaker,
                    IF segmentMatch = 0 THEN None ELSE call.segments[segmentMatch].speaker),
     metricValue |-> raw.metricValue,
     metricType |-> raw.metricType,
     reason |-> raw.reason,
     sourceCallId |-> orIfEmpty(raw.sourceCallId, call.providerCallId),
     sourceCallTitle |-> call.title,
     sourceCallDate |-> call.occurredAt,
     sourceTimestampMs |-> orElse(raw.sourceTimestampMs,
                    IF segmentMatch = 0 THEN None ELSE call.segments[segmentMatch].startMs),
     confidence |-> raw.confidence]
withQuoteAttribution(raw, call) == attributeQuote(raw, call, findSegmentForText(call, raw.quote))

DefaultConfidence == 60
boundConfidence(value) ==
    IF ~IsSome(value) THEN DefaultConfidence ELSE Max2(0, Min2(100, Val(value)))

DefaultReason == <<"E","v","i","d","e","n","c","e"," ","q","u","o","t","e">>

\* safeParseExtraction, the quotes of a well-formed document
rawQuote(q, fallbackCallId) ==
    [quote |-> trim(Val(q.quote)),
     speaker |-> q.speaker,
     metricValue |-> q.metricValue,
     metricType |-> q.metricType,
     reason |-> IF IsSome(q.reason) THEN trim(Val(q.reason)) ELSE DefaultReason,
     sourceCallId |-> IF IsSome(q.sourceCallId) /\ Val(q.sourceCallId) # <<>>
                      THEN Val(q.sourceCallId) ELSE fallbackCallId,
     sourceTimestampMs |-> q.sourceTimestampMs,
     confidence |-> boundConfidence(q.confidence)]

hasQuoteText(q) == IsSome(q.quote) /\ Len(trim(Val(q.quote))) > 0

parseQuotes(candidates, fallbackCallId) ==
    LET usable == SelectSeq(candidates, hasQuoteText)
    IN [i \in 1..Len(usable) |-> rawQuote(usable[i], fallbackCallId)]

\* quotes.ts:39: NUMERIC_PATTERN.  The unit words, each with its optional "s"
UNIT_WORDS ==
    << <<"x">>,
       <<"h","o","u","r","s">>,
       <<"h","o","u","r">>,
       <<"d","a","y","s">>,
       <<"d","a","y">>,
       <<"w","e","e","k","s">>,
       <<"w","e","e","k">>,
       <<"m","o","n","t","h","s">>,
       <<"m","o","n","t","h">>,
       <<"y","e","a","r","s">>,
       <<"y","e","a","r">>,
       <<"m","i","n","s">>,
       <<"m","i","n">>,
       <<"m","i","n","u","t","e","s">>,
       <<"m","i","n","u","t","e">>,
       <<"s","e","c","o","n","d","s">>,
       <<"s","e","c","o","n","d">>,
       <<"u","s","e","r","s">>,
       <<"u","s","e","r">>,
       <<"s","e","a","t","s">>,
       <<"s","e","a","t">>,
       <<"t","i","c","k","e","t","s">>,
       <<"t","i","c","k","e","t">>,
       <<"i","n","c","i","d","e","n","t","s">>,
       <<"i","n","c","i","d","e","n","t">>,
       <<"c","a","l","l","s">>,
       <<"c","a","l","l">>,
       <<"m","e","e","t","i","n","g","s">>,
       <<"m","e","e","t","i","n","g">>,
       <<"d","o","l","l","a","r","s">>,
       <<"d","o","l","l","a","r">> >>

NumberChars == DigitChars \cup {",", "."}

\* \d[\d,.]* matches the characters i..j-1 of s
isNumberRun(s, i, j) ==
    /\ i < j /\ j <= Len(s) + 1
    /\ s[i] \in DigitChars
    /\ \A k \in (i + 1)..(j - 1) : s[k] \in NumberChars

\* \s? matches the characters j..k-1 of s
isOptionalSpace(s, j, k) == k = j \/ (k = j + 1 /\ j <= Len(s) /\ s[j] \in SpaceChars)

\* \$\s?\d[\d,.]* followed by \b, at position i
currencyAt(s, i) ==
    /\ s[i] = "$"
    /\ \E j \in {i + 1, i + 2} :
          /\ isOptionalSpace(s, i + 1, j)
          /\ \E e \in (j + 1)..(Len(s) + 1) : isNumberRun(s, j, e) /\ isBoundary(s, e)

\* \d[\d,.]*\s?% followed by \b, at position i
percentAt(s, i) ==
    \E j \in (i + 1)..Len(s) :
        /\ isNumberRun(s, i, j)
        /\ \E k \in {j, j + 1} :
              /\ isOptionalSpace(s, j, k)
              /\ k <= Len(s) /\ s[k] = "%"
              /\ isBoundary(s, k + 1)

\* \d[\d,.]*\s?(?:x|hours?|...) followed by \b, at position i
quantityAt(s, i) ==
    \E j \in (i + 1)..Len(s) :
        /\ isNumberRun(s, i, j)
        /\ \E k \in {j, j + 1} :
              /\ isOptionalSpace(s, j, k)
              /\ \E u \in 1..Len(UNIT_WORDS) : matchesAt(s, k, UNIT_WORDS[u], TRUE)

\* NUMERIC_PATTERN.test(s)
matchesNumericPattern(s) ==
    \E i \in 1..Len(s) :
        isBoundary(s, i) /\ (currencyAt(s, i) \/ percentAt(s, i) \/ quantityAt(s, i))

\* safeParseExtraction, the claims of a well-formed document
rawClaim(c, fallbackCallId) ==
    [claim |-> trim(Val(c.claim)),
     claimType |-> IF IsSome(c.claimType) THEN Val(c.claimType) ELSE "other",
     value |-> trim(Val(c.value)),
     unit |-> c.unit,
     sourceCallId |-> IF IsSome(c.sourceCallId) /\ Val(c.sourceCallId) # <<>>
                      THEN Val(c.sourceCallId) ELSE fallbackCallId,
     sourceTimestampMs |-> c.sourceTimestampMs,
     evidenceQuote |-> IF IsSome(c.evidenceQuote) THEN trim(Val(c.evidenceQuote)) ELSE <<>>,
     confidence |-> boundConfidence(c.confidence)]

hasClaimText(c) == IsSome(c.claim) /\ Len(trim(Val(c.claim))) > 0
hasValueText(c) == IsSome(c.value) /\ Len(trim(Val(c.value))) > 0

parseClaims(candidates, fallbackCallId) ==
    LET usable == SelectSeq(SelectSeq(candidates, hasClaimText), hasValueText)
    IN SelectSeq([i \in 1..Len(usable) |-> rawClaim(usable[i], fallbackCallId)],
                 LAMBDA c : Len(c.evidenceQuote) > 0)

safeParseExtraction(content, fallbackCallId) ==
    IF content.kind = "json"
    THEN [quotes |-> parseQuotes(content.quotes, fallbackCallId),
          claims |-> parseClaims(content.claims, fallbackCallId)]
    ELSE [quotes |-> <<>>, claims |-> <<>>]

validateQuotes(parsedQuotes, call) ==
    LET present == SelectSeq(parsedQuotes,
                       LAMBDA q : quoteAppearsInTranscript(q.quote, call.transcriptText))
    IN [i \in 1..Len(present) |-> withQuoteAttribution(present[i], call)]

attributeClaim(raw, call, segmentMatch) ==
    [claim |-> raw.claim,
     claimType |-> raw.claimType,
     value |-> raw.value,
     unit |-> raw.unit,
     sourceCallId |-> orIfEmpty(raw.sourceCallId, call.providerCallId),
     sourceCallTitle |-> call.title,
     sourceCallDate |-> call.occurredAt,
     sourceTimestampMs |-> orElse(raw.sourceTimestampMs,
                    IF segmentMatch = 0 THEN None ELSE call.segments[segmentMatch].startMs),
     evidenceQuote |-> raw.evidenceQuote,
     confidence |-> raw.confidence]
withClaimAttribution(raw, call) ==
    attributeClaim(raw, call, findSegmentForText(call, raw.evidenceQuote))

hasNumber(c) ==
    \/ matchesNumericPattern(c.claim)
    \/ matchesNumericPattern(c.value)
    \/ matchesNumericPattern(c.evidenceQuote)

\* the filter without the test of the evidence quote
isAdmittedClaimAnyEvidence(c, call) == hasNumber(c)

\* quotes.ts:92-99: the filter of the candidate claims
isAdmittedClaim(c, call) ==
    hasNumber(c) /\ quoteAppearsInTranscript(c.evidenceQuote, call.transcriptText)

validateClaims(parsedClaims, call) ==
    LET admitted == SelectSeq(parsedClaims, LAMBDA c : isAdmittedClaim(c, call))
    IN [i \in 1..Len(admitted) |-> withClaimAttribution(admitted[i], call)]

quoteKey(q) == q.sourceCallId \o <<":", ":">> \o toLowerCase(q.quote)

RECURSIVE dedupeQuotesFrom(_, _, _)
dedupeQuotesFrom(quotes, seen, result) ==
    IF quotes = <<>> THEN result
    ELSE IF quoteKey(Head(quotes)) \in seen
         THEN dedupeQuotesFrom(Tail(quotes), seen, result)
         ELSE dedupeQuotesFrom(Tail(quotes), seen \cup {quoteKey(Head(quotes))},
                               Append(result, Head(quotes)))
dedupeQuotes(quotes) == dedupeQuotesFrom(quotes, {}, <<>>)

claimKey(c) ==
    c.sourceCallId \o <<":", ":">> \o toLowerCase(c.claim) \o <<":", ":">> \o toLowerCase(c.value)

RECURSIVE dedupeClaimsFrom(_, _, _)
dedupeClaimsFrom(claims, seen, result) ==
    IF claims = <<>> THEN result
    ELSE IF claimKey(Head(claims)) \in seen
         THEN dedupeClaimsFrom(Tail(claims), seen, result)
         ELSE dedupeClaimsFrom(Tail(claims), seen \cup {claimKey(Head(claims))},
                               Append(result, Head(claims)))
dedupeClaims(claims) == dedupeClaimsFrom(claims, {}, <<>>)

(***************************************************************************)
(* Inputs of the extractor                                                 *)
(***************************************************************************)
TextCosts == <<"W","e"," ","c","u","t"," ","c","o","s","t","s"," ","b","y"," ","4","0","%">>
TextChurn2 == <<"c","h","u","r","n"," ","f","e","l","l"," ","t","o"," ","2"," ","p","e","r","c","e","n","t">>

ExtractPool ==
    << mkCall(Gong,  <<"g","-","1">>, <<"Q","B","R">>,  0,  Some(1800),
              <<"A","n","a",":"," ">> \o TextCosts,
              <<mkSegment(Some(<<"A","n","a">>), TextCosts, Some(1000))>>, None),
       mkCall(Grain, <<"r","-","1">>, <<"S","y","n","c">>, 10, Some(600),
              <<"B","o",":"," ">> \o TextChurn2,
              <<mkSegment(None, <<>>, None), mkSegment(Some(<<"B","o">>), TextChurn2, None)>>, None),
       mkCall(Grain, <<"r","-","2">>, <<"I","n","t","r","o">>, 20, None, <<>>, <<>>, None) >>

mkQuote(quote, speaker, sourceCallId, sourceTimestampMs, confidence) ==
    [quote |-> quote, speaker |-> speaker, metricValue |-> None, metricType |-> None,
     reason |-> None, sourceCallId |-> sourceCallId,
     sourceTimestampMs |-> sourceTimestampMs, confidence |-> confidence]

QuoteCosts == <<"w","e"," ","c","u","t"," "," ","C","O","S","T","S"," ","b","y"," ","4","0","%">>
QuoteCosts16 == <<"c","u","t"," ","c","o","s","t","s"," ","b","y"," ","4","0","%">>
QuoteCosts12 == <<"c","o","s","t","s"," ","b","y"," ","4","0","%">>
QuoteChurn == <<" ","C","h","u","r","n"," ","f","e","l","l"," ","t","o","\n","2"," ","p","e","r","c","e","n","t"," ">>
QuoteAbsent == <<"w","e"," ","d","o","u","b","l","e","d"," ","r","e","v","e","n","u","e"," ","l","a","s","t"," ","y","e","a","r">>

mkClaim(claim, value, evidenceQuote, sourceCallId, sourceTimestampMs, confidence) ==
    [claim |-> claim, claimType |-> None, value |-> value, unit |-> None,
     sourceCallId |-> sourceCallId, sourceTimestampMs |-> sourceTimestampMs,
     evidenceQuote |-> evidenceQuote, confidence |-> confidence]

ClaimSaved == <<"S","a","v","e","d"," ","1","0"," ","h","o","u","r","s">>
ClaimSavedUpper == <<" ","s","a","v","e","d"," ","1","0"," ","H","O","U","R","S">>
ValueTenHours == <<"1","0"," ","h","o","u","r","s">>
ValueTenHoursUpper == <<"1","0"," ","H","O","U","R","S"," ">>
ValueFortyPercent == <<"4","0","%">>
ValueTwofold == <<"2","x">>
ValueFiveDays == <<"5"," ","d","a","y","s">>
ClaimCostsCut == <<"C","o","s","t","s"," ","c","u","t">>
ClaimRevenue == <<"R","e","v","e","n","u","e"," ","d","o","u","b","l","e","d">>
ClaimChurn == <<"C","h","u","r","n">>

ClaimUptime == <<"U","p","t","i","m","e">>
ClaimUptimeThreefold == <<"U","p","t","i","m","e",":",":","3","x">>
ValueThreeToTwo == <<"3","x",":",":","2","x">>

jsonReplyWith(quotes, claims) == [kind |-> "json", quotes |-> quotes, claims |-> claims]
jsonReply(quotes) == jsonReplyWith(quotes, <<>>)

ReplyPool ==
    { [kind |-> "null"],
      [kind |-> "malformed"],
      jsonReply(<<mkQuote(Some(QuoteCosts), None, None, None, Some(90))>>),
      jsonReply(<<mkQuote(Some(QuoteCosts), Some(<<"E","v","e">>), Some(<<"r","-","1">>), Some(7000), Some(150))>>),
      jsonReply(<<mkQuote(Some(QuoteChurn), None, Some(<<>>), None, None),
                  mkQuote(Some(QuoteAbsent), None, None, None, Some(80))>>),
      jsonReply(<<mkQuote(Some(QuoteCosts16), None, None, None, Some(70)),
                  mkQuote(Some(QuoteCosts12), None, None, None, Some(70))>>),
      jsonReply(<<mkQuote(Some(TextCosts), None, None, None, Some(50)),
                  mkQuote(Some(QuoteCosts), None, None, None, Some(90)),
                  mkQuote(Some(toLowerCase(TextCosts)), None, None, None, Some(40))>>),
      jsonReply(<<mkQuote(None, None, None, None, None),
                  mkQuote(Some(<<" ", " ">>), None, None, None, None)>>),
      jsonReply(<<mkQuote(Some(QuoteCosts), None, None, Some(7000), Some(90)),
                  mkQuote(Some(QuoteCosts16), Some(<<"E","v","e">>), None, None, Some(70))>>),
      jsonReplyWith(<<>>,
                <<mkClaim(Some(ClaimSaved), Some(ValueTenHoursUpper), Some(QuoteCosts), None, None, Some(90)),
                  mkClaim(Some(ClaimCostsCut), Some(ValueFortyPercent), Some(QuoteCosts16), None, None, Some(80)),
                  mkClaim(Some(ClaimRevenue), Some(ValueTwofold), Some(QuoteAbsent), None, None, Some(80))>>),
      jsonReplyWith(<<mkQuote(Some(QuoteChurn), None, None, None, Some(80))>>,
                <<mkClaim(Some(ClaimChurn), Some(ValueTwofold), Some(QuoteChurn), Some(<<"r","-","1">>), Some(500), None),
                  mkClaim(Some(ClaimCostsCut), Some(ValueFiveDays), Some(QuoteCosts12), None, None, Some(70)),
                  mkClaim(None, Some(ValueTwofold), Some(QuoteChurn), None, None, None),
                  mkClaim(Some(ClaimChurn), Some(<<" ">>), Some(QuoteChurn), None, None, None),
                  mkClaim(Some(ClaimSaved), Some(ValueTenHours), None, None, None, None)>>),
      jsonReplyWith(<<>>,
                <<mkClaim(Some(ClaimSaved), Some(ValueTenHours), Some(QuoteCosts16), None, None, Some(50)),
                  mkClaim(Some(ClaimSavedUpper), Some(ValueTenHoursUpper), Some(QuoteCosts), None, None, Some(90)),
                  mkClaim(Some(ClaimSaved), Some(ValueTenHours), Some(QuoteCosts), Some(<<"r","-","1">>), None, Some(60))>>),
      jsonReplyWith(<<>>,
                <<mkClaim(Some(ClaimUptime), Some(ValueThreeToTwo), Some(QuoteCosts), None, None, Some(80)),
                  mkClaim(Some(ClaimUptimeThreefold), Some(ValueTwofold), Some(QuoteCosts), None, None, Some(80))>>) }

MaxExtractCalls == 2

ExtractLists == SeqsUpTo(SeqToSet(ExtractPool), MaxExtractCalls)

DedupeIdle == calls = <<>> /\ dedupeResult = None /\ rerunResult = None

(***************************************************************************)
(* Specification of the extractor, as buildStory runs it: one request per  *)
(* call, in order; each reply is parsed and validated before the next      *)
(* request; the final lists are handed to the narrative generator.         *)
(***************************************************************************)
InitQuotes ==
    /\ xCalls \in ExtractLists
    /\ xPc = "loop"
    /\ xIndex = 1
    /\ xRequests = <<>>
    /\ xReplies = <<>>
    /\ xQuotes = <<>>
    /\ xClaims = <<>>
    /\ xResult = None
    /\ generatorInput = None
    /\ DedupeIdle
    /\ MatchIdle
    /\ ExtraIdle

\* quotes.ts:71 - the request for call xIndex is sent
IssueRequest ==
    /\ xPc = "loop"
    /\ xIndex <= Len(xCalls)
    /\ xPc' = "awaiting"
    /\ xRequests' = Append(xRequests, xCalls[xIndex].providerCallId)
    /\ UNCHANGED <<xCalls, xIndex, xReplies, xQuotes, xClaims, xResult, generatorInput,
                   dedupeVars, matchVars, extraVars>>

\* quotes.ts:84-103 - the reply arrives, is parsed, validated and accumulated
ReceiveResponse ==
    /\ xPc = "awaiting"
    /\ \E content \in ReplyPool :
          /\ xReplies' = Append(xReplies, content)
          /\ xQuotes' = xQuotes \o
                validateQuotes(safeParseExtraction(content, xCalls[xIndex].providerCallId).quotes,
                               xCalls[xIndex])
          /\ xClaims' = xClaims \o
                validateClaims(safeParseExtraction(content, xCalls[xIndex].providerCallId).claims,
                               xCalls[xIndex])
    /\ xIndex' = xIndex + 1
    /\ xPc' = "loop"
    /\ UNCHANGED <<xCalls, xRequests, xResult, generatorInput, dedupeVars, matchVars, extraVars>>

\* the rejection of a request with the evidence gathered so far returned
RequestFailsWithPartial ==
    /\ xPc = "awaiting"
    /\ xPc' = "failed"
    /\ xResult' = Some([quotes |-> dedupeQuotes(xQuotes), claims |-> dedupeClaims(xClaims)])
    /\ UNCHANGED <<xCalls, xIndex, xRequests, xReplies, xQuotes, xClaims, generatorInput,
                   dedupeVars, matchVars, extraVars>>

\* quotes.ts:71 - the awaited request rejects; extractFromCalls rejects with it
RequestFails ==
    /\ xPc = "awaiting"
    /\ xPc' = "failed"
    /\ UNCHANGED <<xCalls, xIndex, xRequests, xReplies, xQuotes, xClaims, xResult, generatorInput,
                   dedupeVars, matchVars, extraVars>>

\* quotes.ts:106-109
ReturnExtraction ==
    /\ xPc = "loop"
    /\ xIndex > Len(xCalls)
    /\ xResult' = Some([quotes |-> dedupeQuotes(xQuotes), claims |-> dedupeClaims(xClaims)])
    /\ xPc' = "done"
    /\ UNCHANGED <<xCalls, xIndex, xRequests, xReplies, xQuotes, xClaims, generatorInput,
                   dedupeVars, matchVars, extraVars>>

\* caseflow.ts:166-175 - buildStory passes the extractor's lists to generateAll
GenerateAll ==
    /\ xPc = "done"
    /\ generatorInput = None
    /\ generatorInput' = xResult
    /\ UNCHANGED <<xCalls, xPc, xIndex, xRequests, xReplies, xQuotes, xClaims, xResult,
                   dedupeVars, matchVars, extraVars>>

NextQuotes == IssueRequest \/ ReceiveResponse \/ RequestFails \/ ReturnExtraction \/ GenerateAll

SpecQuotes == InitQuotes /\ [][NextQuotes]_vars

(***************************************************************************)
(* Properties of the extractor                                             *)
(***************************************************************************)
returnedQuotes == Val(xResult).quotes
handedQuotes == Val(generatorInput).quotes

\* C4: evidence admissibility: for every QuoteEvidence returned by
\* extractFromCalls, the normalized quote is a substring of the normalized
\* transcript of the call identified by the quote's sourceCallId.
C4_EvidenceAdmissible ==
    IsSome(xResult) =>
        \A i \in 1..Len(returnedQuotes) : \A c \in 1..Len(xCalls) :
            xCalls[c].providerCallId = returnedQuotes[i].sourceCallId
                => includes(normalize(xCalls[c].transcriptText),
                            normalize(returnedQuotes[i].quote))

\* C5: a candidate quote whose normalized text is shorter than 16 characters
\* or is not a substring of the normalized transcript of the call being
\* processed is dropped without an error and never appears in the quotes that
\* buildStory hands to the narrative generator.
failsVerbatimTest(quote, call) ==
    \/ Len(normalize(quote)) < 16
    \/ ~includes(normalize(call.transcriptText), normalize(quote))

\* The candidates of the reply to the request for call c that carry a quote string
offeredQuotes(c) ==
    IF xReplies[c].kind = "json"
    THEN {Val(xReplies[c].quotes[k].quote) :
              k \in {j \in 1..Len(xReplies[c].quotes) : IsSome(xReplies[c].quotes[j].quote)}}
    ELSE {}

\* Entry q of the output stems from the processing of call c
stemsFrom(q, c) ==
    q.sourceCallTitle = xCalls[c].title /\ q.sourceCallDate = xCalls[c].occurredAt

C5_FailingQuoteNeverReachesGenerator ==
    /\ Len(xReplies) = Len(xCalls) => xPc # "failed"
    /\ \A c \in 1..Len(xReplies) : \A quote \in offeredQuotes(c) :
          failsVerbatimTest(quote, xCalls[c]) =>
              /\ \A i \in 1..Len(xQuotes) :
                    ~(stemsFrom(xQuotes[i], c) /\ xQuotes[i].quote = trim(quote))
              /\ IsSome(generatorInput) =>
                    \A i \in 1..Len(handedQuotes) :
                        ~(stemsFrom(handedQuotes[i], c) /\ handedQuotes[i].quote = trim(quote))
    /\ IsSome(generatorInput) =>
          \A i \in 1..Len(handedQuotes) : \E c \in 1..Len(xCalls) :
              stemsFrom(handedQuotes[i], c) /\ ~failsVerbatimTest(handedQuotes[i].quote, xCalls[c])

\* The generator was handed a quote although the replies also offered one that
\* is too short and one that is in no transcript
C5_Witness ==
    /\ IsSome(generatorInput)
    /\ Len(handedQuotes) > 0
    /\ \E c \in 1..Len(xReplies) : \E quote \in offeredQuotes(c) :
          Len(normalize(quote)) < 16 /\ Len(trim(quote)) > 0
    /\ \E c \in 1..Len(xReplies) : \E quote \in offeredQuotes(c) :
          /\ Len(normalize(quote)) >= 16
          /\ ~includes(normalize(xCalls[c].transcriptText), normalize(quote))

(***************************************************************************)
(* Account names: src/providers/account-utils.ts                           *)
(***************************************************************************)
\* the first alternative, in the order the pattern lists them, that matches at i; 0 if none
RECURSIVE firstAlternative(_, _, _, _, _)
firstAlternative(s, i, alts, ignoreCase, k) ==
    IF k > Len(alts) THEN 0
    ELSE IF matchesAt(s, i, alts[k], ignoreCase) THEN k
    ELSE firstAlternative(s, i, alts, ignoreCase, k + 1)

\* /\b(alts)\b/ at position i: the alternative matched, 0 if none
wordMatchAt(s, i, alts, ignoreCase) ==
    IF isBoundary(s, i) THEN firstAlternative(s, i, alts, ignoreCase, 1) ELSE 0

\* s.replace(/\b(alts)\b/g, " ")
RECURSIVE replaceWords(_, _, _, _)
replaceAt(s, i, alts, ignoreCase, k) ==
    IF k = 0 THEN <<s[i]>> \o replaceWords(s, i + 1, alts, ignoreCase)
    ELSE <<" ">> \o replaceWords(s, i + Len(alts[k]), alts, ignoreCase)
replaceWords(s, i, alts, ignoreCase) ==
    IF i > Len(s) THEN <<>>
    ELSE replaceAt(s, i, alts, ignoreCase, wordMatchAt(s, i, alts, ignoreCase))

\* account-utils.ts: COMMON_SUFFIXES, the alternatives in the order of the pattern
COMMON_SUFFIXES ==
    << <<"i","n","c">>, <<"i","n","c",".">>, <<"l","l","c">>, <<"l",".","l",".","c",".">>, <<"l","t","d">>, <<"l","t","d",".">>, <<"c","o","r","p">>, <<"c","o","r","p",".">>,
       <<"c","o","r","p","o","r","a","t","i","o","n">>, <<"c","o","m","p","a","n","y">>, <<"c","o",".">>, <<"p","l","c">>, <<"g","m","b","h">>, <<"s",".","a",".">>, <<"s","a">>,
       <<"p","t","e">>, <<"p","t","y">> >>

\* .replace(/&/g, " and ")
RECURSIVE replaceAmpersand(_)
replaceAmpersand(s) ==
    IF s = <<>> THEN <<>>
    ELSE IF s[1] = "&" THEN <<" ","a","n","d"," ">> \o replaceAmpersand(Tail(s))
    ELSE <<s[1]>> \o replaceAmpersand(Tail(s))

\* .replace(/[^a-z0-9\s]/g, " ")
KeptChars == LowerChars \cup DigitChars \cup SpaceChars
blankPunctuation(s) == [i \in 1..Len(s) |-> IF s[i] \in KeptChars THEN s[i] ELSE " "]

\* A variant of normalizeAccountName that blanks punctuation after the suffixes
\* are removed
normalizeAccountNameLate(name) ==
    trim(collapseSpaces(blankPunctuation(replaceWords(
        replaceAmpersand(toLowerCase(name)), 1, COMMON_SUFFIXES, TRUE))))

normalizeAccountName(name) ==
    trim(collapseSpaces(replaceWords(
        blankPunctuation(replaceAmpersand(toLowerCase(name))), 1, COMMON_SUFFIXES, TRUE)))

(***************************************************************************)
(* Numbers.  A similarity or a confidence is an exact fraction <<p, q>>,   *)
(* q > 0; the IEEE quotient of two small integers is compared as the       *)
(* fraction is.                                                            *)
(***************************************************************************)
One == <<1, 1>>
Zero == <<0, 1>>
ratioLess(x, y) == x[1] * y[2] < y[1] * x[2]
ratioEq(x, y) == x[1] * y[2] = y[1] * x[2]
\* Math.max
ratioMax(x, y) == IF ratioLess(x, y) THEN y ELSE x
\* x - y
ratioMinus(x, y) == <<x[1] * y[2] - y[1] * x[2], x[2] * y[2]>>

(***************************************************************************)
(* String.prototype.localeCompare under the root collation, for the ASCII  *)
(* characters the model uses: white space, then punctuation, then symbols, *)
(* then digits, then letters; letters differ first without regard to case, *)
(* and in a tie the lower-case letter sorts first.                         *)
(***************************************************************************)
CollationOrder == <<"\t", "\n", " ", "_", "-", ",", ":", "!", "?", ".", "/", "&", "%", "$">>
                  \o DigitSeq \o LowerSeq
PrimaryOf == [c \in {CollationOrder[i] : i \in 1..Len(CollationOrder)} |->
                 CHOOSE i \in 1..Len(CollationOrder) : CollationOrder[i] = c]

\* -1, 0 or 1 by the first difference of the primary weights
RECURSIVE comparePrimary(_, _)
comparePrimary(a, b) ==
    IF a = <<>> THEN (IF b = <<>> THEN 0 ELSE -1)
    ELSE IF b = <<>> THEN 1
    ELSE IF toLowerChar(a[1]) = toLowerChar(b[1]) THEN comparePrimary(Tail(a), Tail(b))
    ELSE IF PrimaryOf[toLowerChar(a[1])] < PrimaryOf[toLowerChar(b[1])] THEN -1 ELSE 1

\* -1, 0 or 1 by the first difference of case, for strings equal without regard to case
RECURSIVE compareCase(_, _)
compareCase(a, b) ==
    IF a = <<>> THEN 0
    ELSE IF a[1] = b[1] THEN compareCase(Tail(a), Tail(b))
    ELSE IF a[1] \in LowerChars THEN -1 ELSE 1

compareWithPrimary(a, b, primary) == IF primary # 0 THEN primary ELSE compareCase(a, b)
localeCompare(a, b) == compareWithPrimary(a, b, comparePrimary(a, b))

(***************************************************************************)
(* Account matching: src/webapp/account-matcher.ts                         *)
(*                                                                         *)
(* A DiscoveredAccount is [name, normalizedName, callCount].  A Map is the *)
(* sequence of its entries [key, account] in insertion order.              *)
(***************************************************************************)
HeuristicThreshold == <<82, 100>>
SubstringFloor == <<88, 100>>
LlmThreshold == <<75, 100>>
LlmPromptCap == 120

\* a.split(" ").filter((t) => t.length > 1), as a Set
longTokens(s) == SeqToSet(SelectSeq(split(s), LAMBDA t : Len(t) > 1))

tokenRatio(tokensA, tokensB) ==
    <<Cardinality(tokensA \cap tokensB), Max2(Cardinality(tokensA), Cardinality(tokensB))>>

similarityOfTokens(a, b, tokensA, tokensB) ==
    IF tokensA = {} \/ tokensB = {} THEN Zero
    ELSE IF includes(a, b) \/ includes(b, a)
         THEN ratioMax(tokenRatio(tokensA, tokensB), SubstringFloor)
         ELSE tokenRatio(tokensA, tokensB)

\* the similarity without the floor for a key that contains the other
nameSimilarityUnfloored(a, b) ==
    IF a = b THEN One
    ELSE IF longTokens(a) = {} \/ longTokens(b) = {} THEN Zero
    ELSE tokenRatio(longTokens(a), longTokens(b))

nameSimilarity(a, b) ==
    IF a = b THEN One ELSE similarityOfTokens(a, b, longTokens(a), longTokens(b))

preferName(aTrim, bTrim) ==
    IF Len(aTrim) = Len(bTrim)
    THEN (IF localeCompare(aTrim, bTrim) <= 0 THEN aTrim ELSE bTrim)
    ELSE (IF Len(aTrim) > Len(bTrim) THEN aTrim ELSE bTrim)

pickBetterName(a, b) == preferName(trim(a), trim(b))

\* canonicalName?.trim()
trimmedCanonical(canonicalName) ==
    IF IsSome(canonicalName) THEN trim(Val(canonicalName)) ELSE <<>>

createMatch(gong, grain, reason, confidence, canonicalName) ==
    [id |-> <<>>,
     displayName |-> trim(orIfEmpty(trimmedCanonical(canonicalName),
                                    pickBetterName(gong.name, grain.name))),
     gongName |-> gong.name,
     grainName |-> grain.name,
     gongCallCount |-> gong.callCount,
     grainCallCount |-> grain.callCount,
     confidence |-> confidence,
     matchReason |-> reason]

mkEntry(key, account) == [key |-> key, account |-> account]
mapHas(m, key) == \E i \in 1..Len(m) : m[i].key = key
mapGet(m, key) ==
    IF mapHas(m, key) THEN Some(m[CHOOSE i \in 1..Len(m) : m[i].key = key].account) ELSE None
mapSet(m, key, account) ==
    IF mapHas(m, key)
    THEN [i \in 1..Len(m) |-> IF m[i].key = key THEN mkEntry(key, account) ELSE m[i]]
    ELSE Append(m, mkEntry(key, account))

\* a weaker key, which keeps punctuation and company suffixes
accountKeyRaw(account) == toLowerCase(account.name)

\* account.normalizedName || normalizeAccountName(account.name)
accountKey(account) == orIfEmpty(account.normalizedName, normalizeAccountName(account.name))

RECURSIVE byNormalized(_, _, _)
byNormalized(accounts, index, m) ==
    IF index > Len(accounts) THEN m
    ELSE byNormalized(accounts, index + 1,
                      mapSet(m, accountKey(accounts[index]), accounts[index]))

\* The loops share the state [usedGong, usedGrain, matches]
markUsed(st, gongKey, grainKey, match) ==
    [usedGong |-> st.usedGong \cup {gongKey},
     usedGrain |-> st.usedGrain \cup {grainKey},
     matches |-> Append(st.matches, match)]

\* 1) exact normalized matches
exactStep(st, entry, grain) ==
    IF grain = None THEN st
    ELSE markUsed(st, entry.key, entry.key, createMatch(entry.account, Val(grain), "exact", One, None))

RECURSIVE exactPass(_, _, _, _)
exactPass(gongByNormalized, grainByNormalized, index, st) ==
    IF index > Len(gongByNormalized) THEN st
    ELSE exactPass(gongByNormalized, grainByNormalized, index + 1,
                   exactStep(st, gongByNormalized[index],
                             mapGet(grainByNormalized, gongByNormalized[index].key)))

\* 2) heuristic matches: the inner loop over grainRemaining
RECURSIVE bestGrainFor(_, _, _, _, _)

\* the inner loop without the test of usedGrain
bestGrainWithReuse(gongNormalized, grainRemaining, usedGrain, index, best, entry, score) ==
    bestGrainFor(gongNormalized, grainRemaining, usedGrain, index + 1,
        IF ratioLess(score, HeuristicThreshold) THEN best
        ELSE IF best = None \/ ratioLess(Val(best).score, score)
             THEN Some([normalized |-> entry.key, score |-> score, account |-> entry.account])
             ELSE best)

\* the inner loop keeping the first candidate that reaches the threshold
bestGrainWithFirst(gongNormalized, grainRemaining, usedGrain, index, best, entry, score) ==
    bestGrainFor(gongNormalized, grainRemaining, usedGrain, index + 1,
        IF entry.key \in usedGrain THEN best
        ELSE IF ratioLess(score, HeuristicThreshold) THEN best
        ELSE IF best = None
             THEN Some([normalized |-> entry.key, score |-> score, account |-> entry.account])
             ELSE best)

bestGrainWith(gongNormalized, grainRemaining, usedGrain, index, best, entry, score) ==
    bestGrainFor(gongNormalized, grainRemaining, usedGrain, index + 1,
        IF entry.key \in usedGrain THEN best
        ELSE IF ratioLess(score, HeuristicThreshold) THEN best
        ELSE IF best = None \/ ratioLess(Val(best).score, score)
             THEN Some([normalized |-> entry.key, score |-> score, account |-> entry.account])
             ELSE best)

bestGrainFor(gongNormalized, grainRemaining, usedGrain, index, best) ==
    IF index > Len(grainRemaining) THEN best
    ELSE bestGrainWith(gongNormalized, grainRemaining, usedGrain, index, best,
                       grainRemaining[index],
                       nameSimilarity(gongNormalized, grainRemaining[index].key))

heuristicStep(st, entry, best) ==
    IF best = None THEN st
    ELSE markUsed(st, entry.key, Val(best).normalized,
                  createMatch(entry.account, Val(best).account, "heuristic", Val(best).score, None))

RECURSIVE heuristicPass(_, _, _, _)
heuristicPass(gongRemaining, grainRemaining, index, st) ==
    IF index > Len(gongRemaining) THEN st
    ELSE heuristicPass(gongRemaining, grainRemaining, index + 1,
                       heuristicStep(st, gongRemaining[index],
                                     bestGrainFor(gongRemaining[index].key, grainRemaining,
                                                  st.usedGrain, 1, None)))

\* [...map.entries()].filter(([name]) => !used.has(name))
remaining(m, used) == SelectSeq(m, LAMBDA e : e.key \notin used)

heuristicAfterExact(gongByNormalized, grainByNormalized, st) ==
    heuristicPass(remaining(gongByNormalized, st.usedGong),
                  remaining(grainByNormalized, st.usedGrain), 1, st)

\* account-matcher.ts:38-85: the maps and the two passes that need no collaborator
passesOver(gongByNormalized, grainByNormalized) ==
    [gongByNormalized |-> gongByNormalized,
     grainByNormalized |-> grainByNormalized,
     st |-> heuristicAfterExact(gongByNormalized, grainByNormalized,
                exactPass(gongByNormalized, grainByNormalized, 1,
                          [usedGong |-> {}, usedGrain |-> {}, matches |-> <<>>]))]

localPasses(gong, grain) == passesOver(byNormalized(gong, 1, <<>>), byNormalized(grain, 1, <<>>))

unresolvedGong(local) == remaining(local.gongByNormalized, local.st.usedGong)
unresolvedGrain(local) == remaining(local.grainByNormalized, local.st.usedGrain)

\* input.openaiApiKey && input.openaiApiKey.trim().length > 0
hasApiKey(key) == IsSome(key) /\ Len(trim(Val(key))) > 0

\* the condition of the if at account-matcher.ts:96-101
needsLlm(local, key) ==
    /\ Len(unresolvedGong(local)) > 0
    /\ Len(unresolvedGrain(local)) > 0
    /\ hasApiKey(key)

\* list.slice(0, 120).map((item) => item.normalized)
promptKeys(list) == [i \in 1..Min2(Len(list), LlmPromptCap) |-> list[i].key]

\* llmMatchUnresolved, after the request: the matches of a reply.  A reply is
\*   [kind |-> "empty"]      no content
\*   [kind |-> "malformed"]  content that JSON.parse or the schema rejects
\*   [kind |-> "json", matches |-> list of
\*        [gongNormalizedName, grainNormalizedName, canonicalName, confidence]]
\* where a confidence outside 0..1 makes the schema reject the whole reply.
inUnitInterval(c) == ~ratioLess(c, Zero) /\ ~ratioLess(One, c)
parseLlmReply(reply) ==
    IF reply.kind # "json" THEN <<>>
    ELSE IF \A i \in 1..Len(reply.matches) : inUnitInterval(reply.matches[i].confidence)
         THEN reply.matches
         ELSE <<>>

\* the loop body without the test of the confidence
llmStepAnyConfidence(st, llmMatch, gong, grain) ==
    IF gong = None \/ grain = None THEN st
    ELSE IF llmMatch.gongNormalizedName \in st.usedGong THEN st
    ELSE IF llmMatch.grainNormalizedName \in st.usedGrain THEN st
    ELSE markUsed(st, llmMatch.gongNormalizedName, llmMatch.grainNormalizedName,
                  createMatch(Val(gong), Val(grain), "llm", llmMatch.confidence,
                              llmMatch.canonicalName))

\* 3) the loop over llmMatches
llmStep(st, llmMatch, gong, grain) ==
    IF gong = None \/ grain = None THEN st
    ELSE IF llmMatch.gongNormalizedName \in st.usedGong THEN st
    ELSE IF llmMatch.grainNormalizedName \in st.usedGrain THEN st
    ELSE IF ratioLess(llmMatch.confidence, LlmThreshold) THEN st
    ELSE markUsed(st, llmMatch.gongNormalizedName, llmMatch.grainNormalizedName,
                  createMatch(Val(gong), Val(grain), "llm", llmMatch.confidence,
                              llmMatch.canonicalName))

RECURSIVE llmPass(_, _, _, _, _)
llmPass(llmMatches, gongByNormalized, grainByNormalized, index, st) ==
    IF index > Len(llmMatches) THEN st
    ELSE llmPass(llmMatches, gongByNormalized, grainByNormalized, index + 1,
                 llmStep(st, llmMatches[index],
                         mapGet(gongByNormalized, llmMatches[index].gongNormalizedName),
                         mapGet(grainByNormalized, llmMatches[index].grainNormalizedName)))

\* the comparator of the final sort is negative: a goes before b
totalCalls(m) == m.gongCallCount + m.grainCallCount
\* A variant of sortsBefore: the call counts alone decide
sortsBeforeByCount(a, b) == totalCalls(b) - totalCalls(a) < 0

sortsBefore(a, b) ==
    IF totalCalls(b) # totalCalls(a) THEN totalCalls(b) - totalCalls(a) < 0
    ELSE localeCompare(a.displayName, b.displayName) < 0

\* Array.prototype.sort is stable: m goes after every entry it does not sort before
RECURSIVE insertMatch(_, _)
insertMatch(sorted, m) ==
    IF sorted = <<>> THEN <<m>>
    ELSE IF sortsBefore(m, sorted[1]) THEN <<m>> \o sorted
    ELSE <<sorted[1]>> \o insertMatch(Tail(sorted), m)

RECURSIVE sortMatches(_, _, _)
sortMatches(matches, index, sorted) ==
    IF index > Len(matches) THEN sorted
    ELSE sortMatches(matches, index + 1, insertMatch(sorted, matches[index]))

\* the decimal digits of a positive integer
RECURSIVE decimal(_)
decimal(n) == IF n < 10 THEN <<DigitSeq[n + 1]>> ELSE decimal(n \div 10) \o <<DigitSeq[(n % 10) + 1]>>

\* `shared-${index + 1}`
sharedId(position) == <<"s","h","a","r","e","d","-">> \o decimal(position)

assignIds(sorted) == [i \in 1..Len(sorted) |-> [sorted[i] EXCEPT !.id = sharedId(i)]]

\* account-matcher.ts:124-131
finalize(matches) == assignIds(sortMatches(matches, 1, <<>>))

(***************************************************************************)
(* Account resolution by name: src/mcp/server.ts                           *)
(***************************************************************************)
\* server.ts: the alternatives of stripCompanySuffixes, in the order of the pattern
STRIPPED_SUFFIXES ==
    << <<"i","n","c">>, <<"i","n","c","o","r","p","o","r","a","t","e","d">>, <<"l","l","c">>, <<"l","t","d">>, <<"l","i","m","i","t","e","d">>, <<"c","o","r","p">>, <<"c","o","r","p","o","r","a","t","i","o","n">>,
       <<"c","o","m","p","a","n","y">>, <<"c","o">>, <<"p","l","c">>, <<"g","m","b","h">>, <<"s","a">>, <<"a","g">> >>

stripCompanySuffixes(input) ==
    trim(collapseSpaces(replaceWords(input, 1, STRIPPED_SUFFIXES, FALSE)))

ContainmentScore == <<9, 10>>

tokenSimilarityOf(tokensA, tokensB) ==
    IF tokensA = {} \/ tokensB = {} THEN Zero ELSE tokenRatio(tokensA, tokensB)

tokenSimilarity(a, b) ==
    IF a = b THEN One
    ELSE IF a = <<>> \/ b = <<>> THEN Zero
    ELSE IF includes(a, b) \/ includes(b, a) THEN ContainmentScore
    ELSE tokenSimilarityOf(longTokens(a), longTokens(b))

\* the while loop of normalizedPrefixSimilarity
RECURSIVE commonPrefix(_, _, _)
commonPrefix(a, b, prefix) ==
    IF prefix < Min2(Len(a), Len(b)) /\ a[prefix + 1] = b[prefix + 1]
    THEN commonPrefix(a, b, prefix + 1)
    ELSE prefix

normalizedPrefixSimilarity(a, b) ==
    IF a = <<>> \/ b = <<>> THEN Zero
    ELSE <<commonPrefix(a, b, 0), Max2(Len(a), Len(b))>>

\* levenshteinDistance: the inner loop fills row i of dp.  prev is row i-1,
\* cur holds dp[i][0..j-1] with j = Len(cur), and ch is a[i-1].
RECURSIVE dpRow(_, _, _, _)
dpRow(prev, cur, ch, b) ==
    IF Len(cur) > Len(b) THEN cur
    ELSE dpRow(prev,
               Append(cur, Min2(Min2(prev[Len(cur) + 1] + 1, cur[Len(cur)] + 1),
                                prev[Len(cur)] + (IF ch = b[Len(cur)] THEN 0 ELSE 1))),
               ch, b)

\* the outer loop: dp holds rows 0..i-1 with i = Len(dp)
RECURSIVE dpRows(_, _, _)
dpRows(a, b, dp) ==
    IF Len(dp) > Len(a) THEN dp
    ELSE dpRows(a, b, Append(dp, dpRow(dp[Len(dp)], <<Len(dp)>>, a[Len(dp)], b)))

levenshteinDistance(a, b) ==
    dpRows(a, b, <<[j \in 1..(Len(b) + 1) |-> j - 1]>>)[Len(a) + 1][Len(b) + 1]

normalizedEditSimilarity(a, b) ==
    IF a = <<>> \/ b = <<>> THEN Zero
    ELSE IF a = b THEN One
    ELSE <<Max2(Len(a), Len(b)) - levenshteinDistance(a, b), Max2(Len(a), Len(b))>>

similarityOfStripped(a, b) ==
    ratioMax(ratioMax(tokenSimilarity(a, b), normalizedEditSimilarity(a, b)),
             normalizedPrefixSimilarity(a, b))

smartNameSimilarity(aRaw, bRaw) ==
    similarityOfStripped(stripCompanySuffixes(aRaw), stripCompanySuffixes(bRaw))

bestNameSimilarity(account, normalizedRequested) ==
    ratioMax(ratioMax(
        smartNameSimilarity(normalizeAccountName(account.displayName), normalizedRequested),
        smartNameSimilarity(normalizeAccountName(account.gongName), normalizedRequested)),
        smartNameSimilarity(normalizeAccountName(account.grainName), normalizedRequested))

toSelectedAccount(account) ==
    [id |-> account.id, displayName |-> account.displayName, gongName |-> account.gongName,
     grainName |-> account.grainName, confidence |-> account.confidence]

\* the predicate of discovered.accounts.find
isExactName(account, normalizedRequested) ==
    \/ normalizeAccountName(account.displayName) = normalizedRequested
    \/ normalizeAccountName(account.gongName) = normalizedRequested
    \/ normalizeAccountName(account.grainName) = normalizedRequested

\* Array.prototype.find: the index of the first exact account, 0 if none
RECURSIVE findExact(_, _, _)
findExact(accounts, normalizedRequested, index) ==
    IF index > Len(accounts) THEN 0
    ELSE IF isExactName(accounts[index], normalizedRequested) THEN index
    ELSE findExact(accounts, normalizedRequested, index + 1)

\* .sort((a, b) => b.score - a.score), stable
RECURSIVE insertRanked(_, _)
insertRanked(sorted, item) ==
    IF sorted = <<>> THEN <<item>>
    ELSE IF ratioLess(sorted[1].score, item.score) THEN <<item>> \o sorted
    ELSE <<sorted[1]>> \o insertRanked(Tail(sorted), item)

RECURSIVE rankAccounts(_, _, _, _)
rankAccounts(accounts, normalizedRequested, index, sorted) ==
    IF index > Len(accounts) THEN sorted
    ELSE rankAccounts(accounts, normalizedRequested, index + 1,
             insertRanked(sorted,
                 [account |-> accounts[index],
                  score |-> bestNameSimilarity(accounts[index], normalizedRequested)]))

ConfidentScore == <<82, 100>>
PlausibleScore == <<72, 100>>
RequiredGap == <<8, 100>>
SuggestionCap == 5

\* best && second ? best.score - second.score : 1
scoreGapOf(ranked) ==
    IF Len(ranked) >= 2 THEN ratioMinus(ranked[1].score, ranked[2].score) ELSE One

\* the acceptance test without the lead over the runner-up
acceptsBestWithoutGap(bestScore, scoreGap) ==
    \/ ~ratioLess(bestScore, ConfidentScore)
    \/ ~ratioLess(bestScore, PlausibleScore)

\* best.score >= 0.82 || (best.score >= 0.72 && scoreGap >= 0.08)
acceptsBest(bestScore, scoreGap) ==
    \/ ~ratioLess(bestScore, ConfidentScore)
    \/ (~ratioLess(bestScore, PlausibleScore) /\ ~ratioLess(scoreGap, RequiredGap))

\* Number.prototype.toFixed(2) of a fraction in 0..1: hundredths, a tie rounds up
hundredths(score) == (200 * score[1] + score[2]) \div (2 * score[2])
twoDigits(h) == <<DigitSeq[((h \div 10) % 10) + 1], DigitSeq[(h % 10) + 1]>>
toFixed2(score) == decimal(hundredths(score) \div 100) \o <<".">> \o twoDigits(hundredths(score))

suggestionOf(item) ==
    [displayName |-> item.account.displayName,
     matchReason |-> item.account.matchReason,
     score |-> toFixed2(item.score)]

\* ranked.slice(0, 5).map(...)
suggestionsOf(ranked) ==
    [i \in 1..Min2(Len(ranked), SuggestionCap) |-> suggestionOf(ranked[i])]

selected(account) == [kind |-> "selected", account |-> toSelectedAccount(account)]
notFound(ranked) == [kind |-> "error", ranked |-> ranked, suggestions |-> suggestionsOf(ranked)]

resolveRanked(ranked) ==
    IF acceptsBest(ranked[1].score, scoreGapOf(ranked))
    THEN selected(ranked[1].account)
    ELSE notFound(ranked)

resolveInexact(accounts, normalizedRequested, exact) ==
    IF exact # 0 THEN selected(accounts[exact])
    ELSE resolveRanked(rankAccounts(accounts, normalizedRequested, 1, <<>>))

resolveNormalized(accounts, normalizedRequested) ==
    resolveInexact(accounts, normalizedRequested, findExact(accounts, normalizedRequested, 1))

\* server.ts:273-313, given the accounts that discoverSharedAccounts returned.  The
\* outcome is the selected account, or the error with the local `ranked` it was
\* rendered from and the suggestions its message lists.
resolveSelectedAccount(accountDisplayName, accounts) ==
    IF Len(accounts) = 0 THEN notFound(<<>>)
    ELSE resolveNormalized(accounts, normalizeAccountName(accountDisplayName))

(***************************************************************************)
(* Inputs of account discovery                                             *)
(***************************************************************************)
\* discoverAccounts: an entry of the provider's list, keyed by its normalized name
mkAccount(name, callCount) ==
    [name |-> name, normalizedName |-> normalizeAccountName(name), callCount |-> callCount]

\* The accounts each provider can report, in the order discoverAccounts returns
\* them: by call count, descending, then by name.
GongPool ==
    << mkAccount(<<"A","c","m","e"," ","I","n","c">>, 4),
       mkAccount(<<"A","k","m","e">>, 3),
       mkAccount(<<"U","m","b","r","e","l","l","a">>, 3),
       mkAccount(<<"A","c","m","e"," ","L","a","b","s">>, 2),
       mkAccount(<<"A","c","m","e"," ","R","o","c","k","e","t","s">>, 2),
       mkAccount(<<"G","l","o","b","e","x"," ","C","o","r","p","o","r","a","t","i","o","n">>, 1) >>

GrainPool ==
    << mkAccount(<<"G","l","o","b","e","x">>, 5),
       mkAccount(<<"a","k","m","e">>, 4),
       mkAccount(<<"A","C","M","E",","," ","L","L","C">>, 3),
       mkAccount(<<"R","o","c","k","e","t","s"," ","A","c","m","e">>, 3),
       mkAccount(<<"A","c","m","e"," ","L","a","b","s"," ","B","e","r","l","i","n">>, 2),
       mkAccount(<<"U","m","b","r","e","l","a"," ","G","r","o","u","p">>, 2) >>

MaxAccounts == 2

\* a provider's list never holds two accounts of one normalized name
distinctNames(list) ==
    \A i, j \in 1..Len(list) : i # j => list[i].normalizedName # list[j].normalizedName

\* The accounts the short lists are drawn from: between them an exact match, two
\* Gong accounts that resemble one Grain account, and a pair only the collaborator
\* can match.
GongCore == {GongPool[i] : i \in {1, 3, 4, 5}}
GrainCore == {GrainPool[i] : i \in {2, 3, 4, 6}}

\* every list of at most MaxAccounts accounts of the core, in any order, and the
\* whole pool
AccountLists(pool, core) ==
    {list \in SeqsUpTo(core, MaxAccounts) : distinctNames(list)} \cup {pool}

ApiKeys == {None, Some(<<" "," ">>), Some(<<"s","k","-","t","e","s","t">>)}

mkLlmMatch(gongNormalizedName, grainNormalizedName, canonicalName, confidence) ==
    [gongNormalizedName |-> gongNormalizedName, grainNormalizedName |-> grainNormalizedName,
     canonicalName |-> canonicalName, confidence |-> confidence]

jsonMatches(matches) == [kind |-> "json", matches |-> matches]

\* The completions the collaborator can return
LlmReplyPool ==
    { [kind |-> "empty"],
      [kind |-> "malformed"],
      jsonMatches(<<mkLlmMatch(<<"u","m","b","r","e","l","l","a">>, <<"u","m","b","r","e","l","a"," ","g","r","o","u","p">>, Some(<<"U","m","b","r","e","l","l","a"," ","C","o","r","p">>), <<90, 100>>)>>),
      jsonMatches(<<mkLlmMatch(<<"u","m","b","r","e","l","l","a">>, <<"u","m","b","r","e","l","a"," ","g","r","o","u","p">>, None, <<74, 100>>)>>),
      jsonMatches(<<mkLlmMatch(<<"u","m","b","r","e","l","l","a">>, <<"u","m","b","r","e","l","a"," ","g","r","o","u","p">>, Some(<<" "," ">>), <<75, 100>>),
                    mkLlmMatch(<<"a","c","m","e"," ","l","a","b","s">>, <<"u","m","b","r","e","l","a"," ","g","r","o","u","p">>, None, <<95, 100>>)>>),
      jsonMatches(<<mkLlmMatch(<<"a","c","m","e">>, <<"a","c","m","e">>, None, <<99, 100>>),
                    mkLlmMatch(<<"i","n","i","t","e","c","h">>, <<"u","m","b","r","e","l","a"," ","g","r","o","u","p">>, None, <<99, 100>>),
                    mkLlmMatch(<<"a","c","m","e"," ","l","a","b","s">>, <<"g","l","o","b","e","x">>, Some(<<"A","c","m","e"," ","G","l","o","b","e","x">>), <<80, 100>>)>>),
      jsonMatches(<<mkLlmMatch(<<"u","m","b","r","e","l","l","a">>, <<"u","m","b","r","e","l","a"," ","g","r","o","u","p">>, None, <<150, 100>>)>>) }

RequestedNames == { <<"A","c","m","e">>, <<"a","c","k","m","e">>, <<"U","m","b","r","e","l","a">>, <<"Z","z","z">>, <<"A","k","m","e"," ","C","o">> }

\* the lists a provider returns: in the order of discoverAccounts
positionIn(pool, account) == CHOOSE i \in 1..Len(pool) : pool[i] = account
inDiscoveryOrder(pool, list) ==
    \A i \in 1..(Len(list) - 1) : positionIn(pool, list[i]) < positionIn(pool, list[i + 1])
DiscoveredLists(pool, core) ==
    {list \in AccountLists(pool, core) : inDiscoveryOrder(pool, list)}

(***************************************************************************)
(* Specification of account matching: two lists of discovered accounts are *)
(* matched, with one request to the collaborator when both sides keep      *)
(* unresolved accounts and a key is configured.                            *)
(***************************************************************************)
ResolveIdle == requested = None /\ resolved = None

MatchStart ==
    /\ mPc = "start" /\ mLocal = None /\ mRequest = None /\ mReply = None /\ mResult = None
    /\ ResolveIdle /\ DedupeIdle /\ QuotesIdle /\ ExtraIdle

InitMatch ==
    /\ gongAccounts \in AccountLists(GongPool, GongCore)
    /\ grainAccounts \in AccountLists(GrainPool, GrainCore)
    /\ openaiApiKey \in ApiKeys
    /\ MatchStart

afterPasses(local) ==
    /\ mLocal' = Some(local)
    /\ IF needsLlm(local, openaiApiKey)
       THEN /\ mRequest' = Some([gong |-> promptKeys(unresolvedGong(local)),
                                 grain |-> promptKeys(unresolvedGrain(local))])
            /\ mPc' = "awaiting"
            /\ mResult' = None
       ELSE /\ mRequest' = None
            /\ mPc' = "done"
            /\ mResult' = Some(finalize(local.st.matches))

\* account-matcher.ts:38-101 and, with no request to make, 124-131
RunPasses ==
    /\ mPc = "start"
    /\ afterPasses(localPasses(gongAccounts, grainAccounts))
    /\ UNCHANGED <<gongAccounts, grainAccounts, openaiApiKey, mReply, requested, resolved,
                   dedupeVars, quoteVars, extraVars>>

\* account-matcher.ts:230-240 and 103-131: the completion arrives, is parsed and applied
LlmReplies ==
    /\ mPc = "awaiting"
    /\ \E reply \in LlmReplyPool :
          /\ mReply' = Some(reply)
          /\ mResult' = Some(finalize(llmPass(parseLlmReply(reply),
                                              Val(mLocal).gongByNormalized,
                                              Val(mLocal).grainByNormalized,
                                              1, Val(mLocal).st).matches))
    /\ mPc' = "done"
    /\ UNCHANGED <<gongAccounts, grainAccounts, openaiApiKey, mLocal, mRequest, requested,
                   resolved, dedupeVars, quoteVars, extraVars>>

\* account-matcher.ts:208: the awaited request rejects; nothing catches it in
\* llmMatchUnresolved, matchSharedAccounts (102) or discoverSharedAccounts
\* (caseflow.ts:123)
LlmRequestFails ==
    /\ mPc = "awaiting"
    /\ mReply' = Some([kind |-> "failed"])
    /\ mPc' = "failed"
    /\ UNCHANGED <<gongAccounts, grainAccounts, openaiApiKey, mLocal, mRequest, mResult,
                   requested, resolved, dedupeVars, quoteVars, extraVars>>

\* server.ts:273-313: a name is resolved against the discovered accounts
ResolveAccount ==
    /\ mPc = "done"
    /\ requested = None
    /\ \E name \in RequestedNames :
          /\ requested' = Some(name)
          /\ resolved' = Some(resolveSelectedAccount(name, Val(mResult)))
    /\ UNCHANGED <<gongAccounts, grainAccounts, openaiApiKey, mPc, mLocal, mRequest, mReply,
                   mResult, dedupeVars, quoteVars, extraVars>>

\* server.ts:273: discoverSharedAccounts rejected, and resolveSelectedAccount with it
ResolveRejects ==
    /\ mPc = "failed"
    /\ requested = None
    /\ \E name \in RequestedNames :
          /\ requested' = Some(name)
          /\ resolved' = Some([kind |-> "error", ranked |-> <<>>, suggestions |-> <<>>])
    /\ UNCHANGED <<gongAccounts, grainAccounts, openaiApiKey, mPc, mLocal, mRequest, mReply,
                   mResult, dedupeVars, quoteVars, extraVars>>

NextMatch == RunPasses \/ LlmReplies \/ LlmRequestFails

SpecMatch == InitMatch /\ [][NextMatch]_vars

(***************************************************************************)
(* Specification of account resolution, as the MCP server runs it: the     *)
(* providers' lists, in discovery order, are matched, and a requested name *)
(* is resolved against the shared accounts.                                *)
(***************************************************************************)
InitResolve ==
    /\ gongAccounts \in DiscoveredLists(GongPool, GongCore)
    /\ grainAccounts \in DiscoveredLists(GrainPool, GrainCore)
    /\ openaiApiKey \in ApiKeys
    /\ MatchStart

NextResolve == NextMatch \/ ResolveAccount \/ ResolveRejects

SpecResolve == InitResolve /\ [][NextResolve]_vars

(***************************************************************************)
(* Properties of account matching                                          *)
(***************************************************************************)
matched == Val(mResult)
localMatches == Val(mLocal).st.matches

\* the request failed, or its reply was empty, not JSON, or rejected by the schema
assistedPassGaveNothing ==
    /\ IsSome(mReply)
    /\ \/ Val(mReply).kind \in {"failed", "empty", "malformed"}
       \/ /\ Val(mReply).kind = "json"
          /\ \E i \in 1..Len(Val(mReply).matches) :
                ~inUnitInterval(Val(mReply).matches[i].confidence)

\* C6: the assisted pass fails open.  Whenever the request to the collaborator
\* failed, or its reply was empty or malformed, matchSharedAccounts has completed
\* and has returned exactly the matches of the exact and heuristic passes.
C6_AssistedPassFailsOpen ==
    assistedPassGaveNothing => (mPc = "done" /\ mResult = Some(finalize(localMatches)))

\* C7: matching is injective on raw names.  In the list matchSharedAccounts
\* returns, no Gong name and no Grain name appears in more than one match,
\* whichever of the three passes produced the matches.
C7_RawNamesMatchedOnce ==
    IsSome(mResult) =>
        \A i, j \in 1..Len(matched) :
            i # j => /\ matched[i].gongName # matched[j].gongName
                     /\ matched[i].grainName # matched[j].grainName

isMatchedGong(account) == \E i \in 1..Len(matched) : matched[i].gongName = account.name

\* a returned heuristic match whose Grain record a second, unmatched Gong record
\* resembles closely enough to have been matched with it
C7_Witness ==
    /\ mPc = "done"
    /\ \E i \in 1..Len(matched), g \in 1..Len(gongAccounts) :
          /\ matched[i].matchReason = "heuristic"
          /\ ~isMatchedGong(gongAccounts[g])
          /\ ~ratioLess(nameSimilarity(gongAccounts[g].normalizedName,
                                       normalizeAccountName(matched[i].grainName)),
                        HeuristicThreshold)

\* C8: exact matching is complete.  Whenever a Gong record and a Grain record of
\* the input have the same normalized name, the returned list holds a match of
\* exactly these two records, with confidence 1 and reason "exact", wherever the
\* records stand in their lists and whatever else the lists hold.
C8_ExactMatchComplete ==
    IsSome(mResult) =>
        \A g \in 1..Len(gongAccounts), r \in 1..Len(grainAccounts) :
            normalizeAccountName(gongAccounts[g].name) = normalizeAccountName(grainAccounts[r].name)
            => \E i \in 1..Len(matched) :
                  /\ matched[i].gongName = gongAccounts[g].name
                  /\ matched[i].grainName = grainAccounts[r].name
                  /\ matched[i].gongCallCount = gongAccounts[g].callCount
                  /\ matched[i].grainCallCount = grainAccounts[r].callCount
                  /\ ratioEq(matched[i].confidence, One)
                  /\ matched[i].matchReason = "exact"

\* an exact match of two records that are last in their lists and differ in their
\* raw names, returned next to a match of another pass
C8_Witness ==
    /\ mPc = "done"
    /\ Len(gongAccounts) >= 2
    /\ Len(grainAccounts) >= 2
    /\ gongAccounts[Len(gongAccounts)].normalizedName
          = grainAccounts[Len(grainAccounts)].normalizedName
    /\ gongAccounts[Len(gongAccounts)].name # grainAccounts[Len(grainAccounts)].name
    /\ \E i, j \in 1..Len(matched) :
          /\ matched[i].matchReason = "exact"
          /\ matched[i].gongName = gongAccounts[Len(gongAccounts)].name
          /\ matched[j].matchReason # "exact"

(***************************************************************************)
(* Properties of account resolution                                        *)
(***************************************************************************)
outcome == Val(resolved)
scoreOf(account) == bestNameSimilarity(account, normalizeAccountName(Val(requested)))

\* no candidate scores higher than candidate i
isTopRanked(i) ==
    \A j \in 1..Len(matched) : ~ratioLess(scoreOf(matched[i]), scoreOf(matched[j]))

\* candidate i leads every other candidate by at least 0.08
leadsTheRest(i) ==
    \A j \in 1..Len(matched) :
        j # i => ~ratioLess(ratioMinus(scoreOf(matched[i]), scoreOf(matched[j])), RequiredGap)

maySelect(i) ==
    \/ isExactName(matched[i], normalizeAccountName(Val(requested)))
    \/ /\ isTopRanked(i)
       /\ \/ ~ratioLess(scoreOf(matched[i]), ConfidentScore)
          \/ (~ratioLess(scoreOf(matched[i]), PlausibleScore) /\ leadsTheRest(i))

\* the error lists the highest-scored candidates, at most five, best first
listsBestCandidates ==
    /\ Len(outcome.ranked) = Len(matched)
    /\ {outcome.ranked[i].account : i \in 1..Len(outcome.ranked)} = SeqToSet(matched)
    /\ \A i \in 1..Len(outcome.ranked) :
          outcome.ranked[i].score = scoreOf(outcome.ranked[i].account)
    /\ \A i, j \in 1..Len(outcome.ranked) :
          i < j => ~ratioLess(outcome.ranked[i].score, outcome.ranked[j].score)
    /\ Len(outcome.suggestions) = Min2(Len(matched), SuggestionCap)
    /\ \A i \in 1..Len(outcome.suggestions) :
          /\ outcome.suggestions[i].displayName = outcome.ranked[i].account.displayName
          /\ outcome.suggestions[i].matchReason = outcome.ranked[i].account.matchReason
          /\ outcome.suggestions[i].score = toFixed2(outcome.ranked[i].score)

\* C9: resolveSelectedAccount never silently guesses.  It returns a shared account
\* only if the requested name equals, after normalization, that account's display,
\* Gong or Grain name, or the account is top-ranked and scores at least 0.82, or
\* scores at least 0.72 and leads the other candidates by at least 0.08.  In every
\* other case it fails with an error that lists at most the five highest-scored
\* candidates, in descending order of score, and selects nothing.
C9_NeverSilentlyGuesses ==
    IsSome(resolved) =>
        IF mPc # "done" THEN outcome.kind = "error" /\ outcome.suggestions = <<>>
        ELSE /\ outcome.kind = "selected" =>
                   \E i \in 1..Len(matched) :
                       outcome.account = toSelectedAccount(matched[i]) /\ maySelect(i)
             /\ outcome.kind # "selected" =>
                   /\ outcome.kind = "error"
                   /\ Len(outcome.suggestions) <= SuggestionCap
                   /\ listsBestCandidates

\* the name is refused although its best candidate scores at least 0.72, and more
\* than five candidates are ranked
C9_Witness ==
    /\ mPc = "done"
    /\ IsSome(resolved)
    /\ outcome.kind = "error"
    /\ Len(outcome.ranked) > SuggestionCap
    /\ ~ratioLess(outcome.ranked[1].score, PlausibleScore)

\* C15: the list returned by matchSharedAccounts is sorted by descending
\* summed call count (Gong + Grain), ties broken by ascending display name,
\* and the i-th element (1-based) has id shared-i, so that all ids are distinct.
inStatedOrder(a, b) ==
    \/ a.gongCallCount + a.grainCallCount > b.gongCallCount + b.grainCallCount
    \/ /\ a.gongCallCount + a.grainCallCount = b.gongCallCount + b.grainCallCount
       /\ localeCompare(a.displayName, b.displayName) <= 0

C15_SortedWithSequentialIds ==
    mPc = "done" =>
        /\ \A i, j \in 1..Len(matched) : i < j => inStatedOrder(matched[i], matched[j])
        /\ \A i \in 1..Len(matched) : matched[i].id = <<"s","h","a","r","e","d","-">> \o decimal(i)
        /\ \A i, j \in 1..Len(matched) : i # j => matched[i].id # matched[j].id

\* A result in which two matches with equal summed call counts stand in name
\* order, against the order in which the passes created them
C15_Witness ==
    /\ mPc = "done"
    /\ \E i, j \in 1..Len(matched), a, b \in 1..Len(localMatches) :
          /\ i < j /\ b < a
          /\ totalCalls(matched[i]) = totalCalls(matched[j])
          /\ matched[i].displayName # matched[j].displayName
          /\ localMatches[a].gongName = matched[i].gongName
          /\ localMatches[b].gongName = matched[j].gongName

(***************************************************************************)
(* Specification of the normalizer: a name is drawn, normalizeAccountName  *)
(* is applied to it, and then once more to its own result.                 *)
(***************************************************************************)
\* A name is a concatenation of at most MaxPieces of these pieces
NamePieces ==
    { <<"I","n","c">>, <<"S","A">>, <<"s",".","a",".">>, <<"c","o">>, <<"r","p">>,
      <<" ">>, <<"&">>, <<".">>, <<"_">>, <<"x">> }

MaxPieces == 4

RECURSIVE NamesUpTo(_)
NamesUpTo(n) ==
    IF n = 0 THEN {<<>>}
    ELSE NamesUpTo(n - 1) \cup {name \o piece : name \in NamesUpTo(n - 1), piece \in NamePieces}

InitNormalize ==
    /\ nName \in NamesUpTo(MaxPieces)
    /\ nOnce = None
    /\ nTwice = None
    /\ CompositeIdle /\ FlowIdle /\ SimIdle
    /\ DedupeIdle /\ QuotesIdle /\ MatchIdle

NormalizeOnce ==
    /\ nOnce = None
    /\ nOnce' = Some(normalizeAccountName(nName))
    /\ UNCHANGED <<nName, nTwice, compVars, flowVars, simVars, dedupeVars, quoteVars, matchVars>>

NormalizeAgain ==
    /\ IsSome(nOnce)
    /\ nTwice = None
    /\ nTwice' = Some(normalizeAccountName(Val(nOnce)))
    /\ UNCHANGED <<nName, nOnce, compVars, flowVars, simVars, dedupeVars, quoteVars, matchVars>>

NextNormalize == NormalizeOnce \/ NormalizeAgain

SpecNormalize == InitNormalize /\ [][NextNormalize]_vars

\* C16: normalizeAccountName(normalizeAccountName(x)) equals
\* normalizeAccountName(x) for every string x.
C16_NormalizerIdempotent ==
    IsSome(nTwice) => Val(nTwice) = Val(nOnce)

\* A name from which the first application removed a suffix and in which it
\* expanded an ampersand and blanked punctuation, normalized twice
C16_Witness ==
    /\ IsSome(nTwice)
    /\ includes(nName, <<"&">>) /\ includes(nName, <<"_">>)
    /\ includes(toLowerCase(nName), <<"i","n","c">>)
    /\ ~includes(Val(nOnce), <<"i","n","c">>)
    /\ includes(Val(nOnce), <<"a","n","d">>)

(***************************************************************************)
(* The composite provider: src/providers/compositeProvider.ts              *)
(***************************************************************************)
\* lines 461-467: the Map allNormalized, as a list of [key, account] entries in
\* insertion order whose `account` is the bucket of the key
bucketEntry(account, provider) ==
    [name |-> account.name, normalizedName |-> account.normalizedName,
     callCount |-> account.callCount, source |-> provider]

RECURSIVE addAccounts(_, _, _)
addAccounts(allNormalized, provider, accounts) ==
    IF accounts = <<>> THEN allNormalized
    ELSE addAccounts(
            mapSet(allNormalized, Head(accounts).normalizedName,
                   Append(IF mapHas(allNormalized, Head(accounts).normalizedName)
                          THEN Val(mapGet(allNormalized, Head(accounts).normalizedName))
                          ELSE <<>>,
                          bucketEntry(Head(accounts), provider))),
            provider, Tail(accounts))

RECURSIVE addResults(_, _)
addResults(allNormalized, providerAccounts) ==
    IF providerAccounts = <<>> THEN allNormalized
    ELSE addResults(addAccounts(allNormalized, Head(providerAccounts).provider,
                                Head(providerAccounts).accounts),
                    Tail(providerAccounts))

\* lines 475-477: the first of the longest names
RECURSIVE bestNameOf(_, _, _)
bestNameOf(entries, index, best) ==
    IF index > Len(entries) THEN best
    ELSE bestNameOf(entries, index + 1,
                    IF Len(entries[index].name) > Len(best) THEN entries[index].name ELSE best)

RECURSIVE joinSources(_)
joinSources(entries) ==
    IF Len(entries) = 1 THEN entries[1].source
    ELSE joinSources(SubSeq(entries, 1, Len(entries) - 1)) \o <<"+">> \o entries[Len(entries)].source

RECURSIVE sumCallCounts(_)
sumCallCounts(entries) ==
    IF entries = <<>> THEN 0 ELSE Head(entries).callCount + sumCallCounts(Tail(entries))

\* A variant of skipsBucket: no bucket is skipped
skipsNoBucket(sharedAccountsOnly, entries, providerCount) == FALSE

\* line 471
skipsBucket(sharedAccountsOnly, entries, providerCount) ==
    sharedAccountsOnly /\ Len(entries) < providerCount

outputAccount(normalizedName, entries) ==
    [name |-> bestNameOf(entries, 2, entries[1].name), normalizedName |-> normalizedName,
     source |-> joinSources(entries), callCount |-> sumCallCounts(entries)]

RECURSIVE collectOutput(_, _, _, _)
collectOutput(allNormalized, sharedAccountsOnly, providerCount, output) ==
    IF allNormalized = <<>> THEN output
    ELSE collectOutput(Tail(allNormalized), sharedAccountsOnly, providerCount,
            IF skipsBucket(sharedAccountsOnly, Head(allNormalized).account, providerCount)
            THEN output
            ELSE Append(output, outputAccount(Head(allNormalized).key, Head(allNormalized).account)))

\* line 487: by call count, descending, then by name; the sort is stable
accountSortsBefore(a, b) ==
    IF b.callCount # a.callCount THEN b.callCount - a.callCount < 0
    ELSE localeCompare(a.name, b.name) < 0

RECURSIVE insertAccount(_, _)
insertAccount(sorted, account) ==
    IF sorted = <<>> THEN <<account>>
    ELSE IF accountSortsBefore(account, sorted[1]) THEN <<account>> \o sorted
    ELSE <<sorted[1]>> \o insertAccount(Tail(sorted), account)

RECURSIVE sortAccounts(_)
sortAccounts(output) ==
    IF output = <<>> THEN <<>>
    ELSE insertAccount(sortAccounts(SubSeq(output, 1, Len(output) - 1)), output[Len(output)])

\* lines 459-487, applied to the results Promise.all resolved with
compositeAccounts(providerAccounts, sharedAccountsOnly) ==
    sortAccounts(collectOutput(addResults(<<>>, providerAccounts), sharedAccountsOnly,
                               Len(providerAccounts), <<>>))

(***************************************************************************)
(* Specification of CompositeProvider.discoverAccounts over the Gong and   *)
(* the Grain provider (factory.ts:88), with the option set and unset.      *)
(***************************************************************************)
InitComposite ==
    /\ cShared \in BOOLEAN
    /\ cPc = "start"
    /\ cAccounts = None
    /\ cResult = None
    /\ NormIdle /\ FlowIdle /\ SimIdle
    /\ DedupeIdle /\ QuotesIdle /\ MatchIdle

\* lines 449-457: discoverAccounts of every provider is called, then all are awaited
CompositeRequests ==
    /\ cPc = "start"
    /\ cPc' = "awaiting"
    /\ UNCHANGED <<cShared, cAccounts, cResult, normVars, flowVars, simVars, dedupeVars, quoteVars,
                   matchVars>>

\* lines 459-487: both providers resolved
CompositeResolves ==
    /\ cPc = "awaiting"
    /\ \E gong \in DiscoveredLists(GongPool, GongCore), grain \in DiscoveredLists(GrainPool, GrainCore) :
          /\ cAccounts' = Some(<<gong, grain>>)
          /\ cResult' = Some(compositeAccounts(
                              <<[provider |-> Gong, accounts |-> gong],
                                [provider |-> Grain, accounts |-> grain]>>, cShared))
    /\ cPc' = "done"
    /\ UNCHANGED <<cShared, normVars, flowVars, simVars, dedupeVars, quoteVars, matchVars>>

\* line 449: a provider rejected, and Promise.all with it
CompositeRejects ==
    /\ cPc = "awaiting"
    /\ cPc' = "failed"
    /\ UNCHANGED <<cShared, cAccounts, cResult, normVars, flowVars, simVars, dedupeVars, quoteVars,
                   matchVars>>

NextComposite == CompositeRequests \/ CompositeResolves \/ CompositeRejects

SpecComposite == InitComposite /\ [][NextComposite]_vars

\* C12: with sharedAccountsOnly set, CompositeProvider.discoverAccounts
\* returns an account only if its normalized name is in the discovery result
\* of every underlying provider.
discoveredBy(p, normalizedName) ==
    \E i \in 1..Len(Val(cAccounts)[p]) : Val(cAccounts)[p][i].normalizedName = normalizedName

C12_OnlySharedAccounts ==
    (cPc = "done" /\ cShared) =>
        \A o \in 1..Len(Val(cResult)) :
            \A p \in 1..Len(Val(cAccounts)) : discoveredBy(p, Val(cResult)[o].normalizedName)

\* Both providers found an account the other did not find, one account was
\* found by both, and the shared one alone was returned
C12_Witness ==
    /\ cPc = "done" /\ cShared
    /\ Len(Val(cResult)) = 1
    /\ \E i \in 1..Len(Val(cAccounts)[1]) : ~discoveredBy(2, Val(cAccounts)[1][i].normalizedName)
    /\ \E i \in 1..Len(Val(cAccounts)[2]) : ~discoveredBy(1, Val(cAccounts)[2][i].normalizedName)

(***************************************************************************)
(* The web flow: src/services/caseflow.ts                                  *)
(*                                                                         *)
(* discoverSharedAccounts, exportAccountCorpus and buildStory, one step    *)
(* per stretch of code between two awaits.  matchSharedAccounts,           *)
(* extractFromCalls and generateAll are awaited calls here; the first two  *)
(* are specified above.                                                    *)
(***************************************************************************)
Pending == [status |-> "pending", value |-> <<>>]
Resolved(value) == [status |-> "resolved", value |-> value]
Rejected == [status |-> "rejected", value |-> <<>>]

\* A variant of joined: the Gong result alone lets the operation continue
joinedOnGong(gong, grain) == gong.status = "resolved"

\* Promise.all resolves: lines 110-121 and 213-226
joined(gong, grain) == gong.status = "resolved" /\ grain.status = "resolved"

\* A variant of emptyError: an empty list is let through
emptyAccepted(list, message) == None

\* if (list.length === 0) throw new Error(message): lines 229-231 and 234-236
emptyError(list, message) == IF list = <<>> THEN Some(message) ELSE None

NoCallsFound == "No calls found for the selected account/company in Gong or Grain."
AllCallsRemoved == "All calls were removed by dedupe. Try a different account or date range."
UnknownStoryType == "Unknown story type"

\* A variant of storyTypeError: any story type id is let through
storyTypeAccepted(known) == None

\* buildStory, lines 157-160: USE_CASES.find(...) and the throw
storyTypeError(known) == IF known THEN None ELSE Some(UnknownStoryType)

\* lines 228-236, with the error of each check passed in
corpusAfterJoin(combined, noCalls) ==
    IF IsSome(noCalls) THEN [error |-> noCalls, dedupe |-> None]
    ELSE [error |-> emptyError(dedupeCalls(combined).calls, AllCallsRemoved),
          dedupe |-> Some(dedupeCalls(combined))]

\* What the providers can resolve with: calls of one account in occurredAt
\* order, accounts in discovery order
MaxFetched == 2
GongFetched == <<CallPool[1], CallPool[5], CallPool[11]>>
GrainFetched == <<CallPool[2], CallPool[10], CallPool[6]>>
FetchedLists(pool) ==
    {list \in SeqsUpTo(SeqToSet(pool), MaxFetched) :
        \A i \in 1..(Len(list) - 1) : positionIn(pool, list[i]) < positionIn(pool, list[i + 1])}

GongValues == IF fOp = "discover" THEN DiscoveredLists(GongPool, GongCore) ELSE FetchedLists(GongFetched)
GrainValues == IF fOp = "discover" THEN DiscoveredLists(GrainPool, GrainCore) ELSE FetchedLists(GrainFetched)

InitFlow ==
    /\ fOp \in {"discover", "export", "build"}
    /\ fStoryKnown \in (IF fOp = "build" THEN BOOLEAN ELSE {TRUE})
    /\ fPc = "start"
    /\ fGong = NoRequest /\ fGrain = NoRequest
    /\ fMatch = None /\ fDedupe = None /\ fWritten = <<>> /\ fRequests = <<>> /\ fError = None
    /\ NormIdle /\ CompositeIdle /\ SimIdle
    /\ DedupeIdle /\ QuotesIdle /\ MatchIdle

otherVars == <<normVars, compVars, simVars, dedupeVars, quoteVars, matchVars>>

\* lines 107-121 and 210-226: both requests are made, then Promise.all is awaited
FlowStart ==
    /\ fPc = "start"
    /\ fGong' = Pending /\ fGrain' = Pending
    /\ fPc' = "awaiting"
    /\ UNCHANGED <<fOp, fStoryKnown, fMatch, fDedupe, fWritten, fRequests, fError, otherVars>>

GongResolves ==
    /\ fGong.status = "pending"
    /\ \E value \in GongValues : fGong' = Resolved(value)
    /\ UNCHANGED <<fOp, fStoryKnown, fPc, fGrain, fMatch, fDedupe, fWritten, fRequests, fError, otherVars>>

GrainResolves ==
    /\ fGrain.status = "pending"
    /\ \E value \in GrainValues : fGrain' = Resolved(value)
    /\ UNCHANGED <<fOp, fStoryKnown, fPc, fGong, fMatch, fDedupe, fWritten, fRequests, fError, otherVars>>

GongRejects ==
    /\ fGong.status = "pending"
    /\ fGong' = Rejected
    /\ UNCHANGED <<fOp, fStoryKnown, fPc, fGrain, fMatch, fDedupe, fWritten, fRequests, fError, otherVars>>

GrainRejects ==
    /\ fGrain.status = "pending"
    /\ fGrain' = Rejected
    /\ UNCHANGED <<fOp, fStoryKnown, fPc, fGong, fMatch, fDedupe, fWritten, fRequests, fError, otherVars>>

\* Promise.all rejects with the first rejection; nothing in the operation catches it
JoinRejects ==
    /\ fPc = "awaiting"
    /\ fGong.status = "rejected" \/ fGrain.status = "rejected"
    /\ fPc' = "failed"
    /\ fError' = Some("provider request failed")
    /\ UNCHANGED <<fOp, fStoryKnown, fGong, fGrain, fMatch, fDedupe, fWritten, fRequests, otherVars>>

\* lines 123-128: matchSharedAccounts is called with both lists and awaited
DiscoverJoins ==
    /\ fOp = "discover"
    /\ fPc = "awaiting"
    /\ joined(fGong, fGrain)
    /\ fMatch' = Some(<<fGong.value, fGrain.value>>)
    /\ fPc' = "matching"
    /\ UNCHANGED <<fOp, fStoryKnown, fGong, fGrain, fDedupe, fWritten, fRequests, fError, otherVars>>

\* lines 130-137
MatchResolves ==
    /\ fPc = "matching"
    /\ fPc' = "done"
    /\ UNCHANGED <<fOp, fStoryKnown, fGong, fGrain, fMatch, fDedupe, fWritten, fRequests, fError, otherVars>>

\* line 123: matchSharedAccounts rejects (account-matcher.ts:208)
MatchRejects ==
    /\ fPc = "matching"
    /\ fPc' = "failed"
    /\ fError' = Some("matching failed")
    /\ UNCHANGED <<fOp, fStoryKnown, fGong, fGrain, fMatch, fDedupe, fWritten, fRequests, otherVars>>

\* lines 228-247: the checks, dedupe, and the first write is awaited
corpusJoined(after) ==
    /\ fDedupe' = after.dedupe
    /\ IF IsSome(after.error)
       THEN fPc' = "failed" /\ fError' = after.error
       ELSE fPc' = "writingDownload" /\ fError' = fError

CorpusJoins ==
    /\ fOp \in {"export", "build"}
    /\ fPc = "awaiting"
    /\ joined(fGong, fGrain)
    /\ corpusJoined(corpusAfterJoin(fGong.value \o fGrain.value,
                                    emptyError(fGong.value \o fGrain.value, NoCallsFound)))
    /\ UNCHANGED <<fOp, fStoryKnown, fGong, fGrain, fMatch, fWritten, fRequests, otherVars>>

\* line 247 completes; lines 249-253: the two corpus writes are awaited together
WriteDownload ==
    /\ fPc = "writingDownload"
    /\ fWritten' = Append(fWritten, "downloads markdown")
    /\ fPc' = "writingOutput"
    /\ UNCHANGED <<fOp, fStoryKnown, fGong, fGrain, fMatch, fDedupe, fRequests, fError, otherVars>>

\* lines 250-253 complete, in either order; lines 255-261
WriteOutput ==
    /\ fPc = "writingOutput"
    /\ \E files \in {<<"call files", "merged file">>, <<"merged file", "call files">>} :
          fWritten' = fWritten \o files
    /\ fPc' = "writingReport"
    /\ UNCHANGED <<fOp, fStoryKnown, fGong, fGrain, fMatch, fDedupe, fRequests, fError, otherVars>>

\* line 256 completes and prepareAccountCorpus returns; exportAccountCorpus
\* returns (142-151), buildStory goes on to the first extraction request
\* (157-166)
WriteReport ==
    /\ fPc = "writingReport"
    /\ fWritten' = Append(fWritten, "dedupe report")
    /\ IF fOp = "export"
       THEN fPc' = "done" /\ UNCHANGED <<fRequests, fError>>
       ELSE IF IsSome(storyTypeError(fStoryKnown))
       THEN fPc' = "failed" /\ fError' = storyTypeError(fStoryKnown) /\ UNCHANGED fRequests
       ELSE fPc' = "extracting" /\ fRequests' = Append(fRequests, "extract") /\ UNCHANGED fError
    /\ UNCHANGED <<fOp, fStoryKnown, fGong, fGrain, fMatch, fDedupe, otherVars>>

\* quotes.ts: one request per call, each awaited before the next; then
\* generateAll (caseflow.ts:168-175)
ExtractionReplies ==
    /\ fPc = "extracting"
    /\ IF Len(fRequests) < Len(Val(fDedupe).calls)
       THEN fRequests' = Append(fRequests, "extract") /\ fPc' = fPc
       ELSE fRequests' = Append(fRequests, "generate") /\ fPc' = "generating"
    /\ UNCHANGED <<fOp, fStoryKnown, fGong, fGrain, fMatch, fDedupe, fWritten, fError, otherVars>>

\* lines 177-182
GenerationReplies ==
    /\ fPc = "generating"
    /\ fPc' = "writingStory"
    /\ UNCHANGED <<fOp, fStoryKnown, fGong, fGrain, fMatch, fDedupe, fWritten, fRequests, fError, otherVars>>

\* lines 182-190
WriteStory ==
    /\ fPc = "writingStory"
    /\ fWritten' = Append(fWritten, "story")
    /\ fPc' = "writingCsv"
    /\ UNCHANGED <<fOp, fStoryKnown, fGong, fGrain, fMatch, fDedupe, fRequests, fError, otherVars>>

\* lines 190-207
WriteCsv ==
    /\ fPc = "writingCsv"
    /\ fWritten' = Append(fWritten, "quotes csv")
    /\ fPc' = "done"
    /\ UNCHANGED <<fOp, fStoryKnown, fGong, fGrain, fMatch, fDedupe, fRequests, fError, otherVars>>

\* an awaited request to the reasoning service rejects
RequestRejects ==
    /\ fPc \in {"extracting", "generating"}
    /\ fPc' = "failed"
    /\ fError' = Some("request failed")
    /\ UNCHANGED <<fOp, fStoryKnown, fGong, fGrain, fMatch, fDedupe, fWritten, fRequests, otherVars>>

\* an awaited write rejects
WriteRejects ==
    /\ fPc \in {"writingDownload", "writingOutput", "writingReport", "writingStory", "writingCsv"}
    /\ fPc' = "failed"
    /\ fError' = Some("write failed")
    /\ UNCHANGED <<fOp, fStoryKnown, fGong, fGrain, fMatch, fDedupe, fWritten, fRequests, otherVars>>

NextFlow ==
    \/ FlowStart \/ GongResolves \/ GrainResolves \/ GongRejects \/ GrainRejects
    \/ JoinRejects \/ DiscoverJoins \/ MatchResolves \/ MatchRejects
    \/ CorpusJoins \/ WriteDownload \/ WriteOutput \/ WriteReport
    \/ ExtractionReplies \/ GenerationReplies \/ WriteStory \/ WriteCsv
    \/ RequestRejects \/ WriteRejects

SpecFlow == InitFlow /\ [][NextFlow]_vars

(***************************************************************************)
(* Properties of the web flow                                              *)
(***************************************************************************)
preparesCorpus == fOp \in {"export", "build"}
providersJoined ==
    /\ fGong.status = "resolved" /\ fGrain.status = "resolved"
    /\ fPc \notin {"start", "awaiting"}
combinedCalls == fGong.value \o fGrain.value

\* C13: whenever the combined list of calls fetched from the two providers
\* is empty, or the call list left after dedupe is empty, prepareAccountCorpus
\* raises an error, no file is written and no extraction or generation request
\* is issued.
C13_EmptyCorpusIsAnError ==
    (/\ preparesCorpus /\ providersJoined
     /\ \/ combinedCalls = <<>>
        \/ (IsSome(fDedupe) /\ Val(fDedupe).calls = <<>>))
        => /\ fPc = "failed"
           /\ fError \in {Some(NoCallsFound), Some(AllCallsRemoved)}
           /\ fWritten = <<>>
           /\ fRequests = <<>>

\* Both providers resolved with no call and the operation failed
C13_Witness ==
    /\ preparesCorpus /\ providersJoined
    /\ combinedCalls = <<>>
    /\ fPc = "failed"
    /\ fError = Some(NoCallsFound)
    /\ fDedupe = None

\* C14: in discoverSharedAccounts and prepareAccountCorpus both provider
\* requests are issued before either result is awaited; account matching or
\* dedupe starts only after both have completed; and a failure of either
\* provider fails the whole operation with no matching, no dedupe and no file
\* write performed.
aProviderRejected == fGong.status = "rejected" \/ fGrain.status = "rejected"
nothingPerformed == fMatch = None /\ fDedupe = None /\ fWritten = <<>> /\ fRequests = <<>>

fanOutJoinAll ==
    /\ (fGong.status = "idle") = (fPc = "start")
    /\ (fGrain.status = "idle") = (fPc = "start")
    /\ (IsSome(fMatch) \/ IsSome(fDedupe)) =>
          (fGong.status = "resolved" /\ fGrain.status = "resolved")
    /\ aProviderRejected => (fPc \in {"awaiting", "failed"} /\ nothingPerformed)

\* while a provider has rejected, the only step the operation takes is to fail
failsOnRejection ==
    (aProviderRejected /\ fPc' # fPc) => (fPc' = "failed" /\ nothingPerformed')

C14_FanOutJoinAll == [](fanOutJoinAll) /\ [][failsOnRejection]_vars

\* One provider resolved with data, the other rejected, and the operation
\* failed with nothing performed
C14_Witness ==
    /\ fPc = "failed"
    /\ fGong.status = "resolved" /\ fGong.value # <<>>
    /\ fGrain.status = "rejected"
    /\ nothingPerformed

(***************************************************************************)
(* Further properties of the deduplicator                                  *)
(***************************************************************************)
\* C21: the calls returned by dedupeCalls are in ascending occurredAt order,
\* for any input.
C21_ReturnedInTimeOrder ==
    IsSome(dedupeResult) =>
        \A i, j \in 1..Len(firstRun.calls) :
            i < j => firstRun.calls[i].occurredAt <= firstRun.calls[j].occurredAt

\* C29: dedupeCalls returns at least one call for every non-empty input: the
\* first call in occurredAt order is kept or replaced by a duplicate of it,
\* so the check for an empty list after dedupe passes whenever the check for
\* an empty fetched list passed.
C29_NeverEmptiesNonEmptyInput ==
    (IsSome(dedupeResult) /\ emptyError(calls, NoCallsFound) = None) =>
        /\ Len(firstRun.calls) >= 1
        /\ returnedAs(sortedCalls[1]) # {} \/ droppedAs(sortedCalls[1]) # {}
        /\ emptyError(firstRun.calls, AllCallsRemoved) = None

\* Every call of the input was a duplicate, the first one in occurredAt order
\* was dropped for a later one, and one call was returned
C29_Witness ==
    /\ IsSome(dedupeResult) /\ Len(calls) = 3
    /\ Len(firstRun.calls) = 1
    /\ returnedAs(sortedCalls[1]) = {}
    /\ droppedAs(sortedCalls[1]) # {}

(***************************************************************************)
(* Further properties of the web flow                                      *)
(***************************************************************************)
corpusFiles == {"downloads markdown", "call files", "merged file", "dedupe report"}
storyFiles == {"story", "quotes csv"}
writtenFiles == {fWritten[i] : i \in 1..Len(fWritten)}

\* C30: in buildStory an unknown storyTypeId is rejected with an error before
\* any extraction or generation request is issued and before any story or
\* quotes-CSV file is written, but only after the provider fetch, the dedupe
\* and the writing of the merged corpus files have completed.
C30_UnknownStoryTypeRejectedAfterCorpus ==
    (fOp = "build" /\ ~fStoryKnown) =>
        /\ fRequests = <<>>
        /\ writtenFiles \cap storyFiles = {}
        /\ fPc # "done"
        /\ fError = Some(UnknownStoryType) =>
              /\ fPc = "failed"
              /\ fGong.status = "resolved" /\ fGrain.status = "resolved"
              /\ IsSome(fDedupe)
              /\ writtenFiles = corpusFiles
        /\ (fPc = "failed" /\ writtenFiles = corpusFiles) => fError = Some(UnknownStoryType)

\* A build with an unknown story type, rejected once the corpus was written
C30_Witness ==
    /\ fOp = "build" /\ ~fStoryKnown
    /\ fError = Some(UnknownStoryType)
    /\ Len(fWritten) = 4
    /\ fRequests = <<>>


(***************************************************************************)
(* Further properties of account matching                                  *)
(***************************************************************************)
passes == Val(mLocal)

gongKeyOf(m) == normalizeAccountName(m.gongName)
grainKeyOf(m) == normalizeAccountName(m.grainName)
grainKeys == {passes.grainByNormalized[i].key : i \in 1..Len(passes.grainByNormalized)}
gongPosition(key) ==
    CHOOSE i \in 1..Len(passes.gongByNormalized) : passes.gongByNormalized[i].key = key

\* the Grain keys no match made before localMatches[k] had taken
openBeforeMatch(k) == grainKeys \ {grainKeyOf(localMatches[i]) : i \in 1..(k - 1)}

\* the Grain keys still unmatched when the Gong record at position p of the map is
\* processed by the heuristic pass
openAtPosition(p) ==
    grainKeys \ {grainKeyOf(localMatches[i]) : i \in
                    {k \in 1..Len(localMatches) :
                        \/ localMatches[k].matchReason = "exact"
                        \/ gongPosition(gongKeyOf(localMatches[k])) < p}}

heuristicMatchIsBest(k) ==
    /\ gongKeyOf(localMatches[k]) \notin grainKeys
    /\ grainKeyOf(localMatches[k]) \in openBeforeMatch(k)
    /\ ratioEq(localMatches[k].confidence,
               nameSimilarity(gongKeyOf(localMatches[k]), grainKeyOf(localMatches[k])))
    /\ ~ratioLess(localMatches[k].confidence, HeuristicThreshold)
    /\ \A key \in openBeforeMatch(k) :
          ~ratioLess(localMatches[k].confidence,
                     nameSimilarity(gongKeyOf(localMatches[k]), key))
    /\ \A j \in 1..Len(localMatches) :
          j # k => gongKeyOf(localMatches[j]) # gongKeyOf(localMatches[k])

leftUnmatched(p) == passes.gongByNormalized[p].key \notin passes.st.usedGong

\* C22: the heuristic pass is a greedy best match.  After the exact and the
\* heuristic pass, every match of reason "heuristic" pairs a Gong record that the
\* exact pass left unmatched with a Grain record that was still unmatched when the
\* Gong record was processed, no Grain record unmatched at that moment resembles
\* the Gong record more, the similarity is at least 0.82 and is the match's
\* confidence, and the Gong record is in no other match; and for every Gong record
\* the two passes leave unmatched, each Grain record that was unmatched when it was
\* processed resembles it by less than 0.82.
C22_HeuristicGreedyBestMatch ==
    IsSome(mLocal) =>
        /\ \A k \in 1..Len(localMatches) :
              /\ localMatches[k].matchReason \in {"exact", "heuristic"}
              /\ localMatches[k].matchReason = "heuristic" => heuristicMatchIsBest(k)
        /\ \A p \in 1..Len(passes.gongByNormalized) :
              leftUnmatched(p) =>
                  \A key \in openAtPosition(p) :
                      ratioLess(nameSimilarity(passes.gongByNormalized[p].key, key),
                                HeuristicThreshold)

\* a heuristic match that was preferred to an earlier candidate of lower, yet
\* sufficient, similarity, next to a Gong record left unmatched although a Grain
\* record was still unmatched
C22_Witness ==
    /\ IsSome(mLocal)
    /\ \E k \in 1..Len(localMatches) :
          /\ localMatches[k].matchReason = "heuristic"
          /\ \E i \in 1..Len(passes.grainByNormalized) :
                /\ passes.grainByNormalized[i].key \in openBeforeMatch(k)
                /\ i < CHOOSE j \in 1..Len(passes.grainByNormalized) :
                          passes.grainByNormalized[j].key = grainKeyOf(localMatches[k])
                /\ ~ratioLess(nameSimilarity(gongKeyOf(localMatches[k]),
                                             passes.grainByNormalized[i].key),
                              HeuristicThreshold)
                /\ ratioLess(nameSimilarity(gongKeyOf(localMatches[k]),
                                            passes.grainByNormalized[i].key),
                             localMatches[k].confidence)
    /\ \E p \in 1..Len(passes.gongByNormalized) :
          leftUnmatched(p) /\ openAtPosition(p) # {}


\* the pairs of the reply, as parsed: none when the schema rejects the reply
replyPairs == parseLlmReply(Val(mReply))
gongKeys == {passes.gongByNormalized[i].key : i \in 1..Len(passes.gongByNormalized)}

\* pair i of the reply names two discovered accounts that the exact and heuristic
\* passes left unmatched, with a confidence of at least 0.75
mayBeAccepted(i) ==
    /\ replyPairs[i].gongNormalizedName \in gongKeys \ passes.st.usedGong
    /\ replyPairs[i].grainNormalizedName \in grainKeys \ passes.st.usedGrain
    /\ ~ratioLess(replyPairs[i].confidence, LlmThreshold)

\* ... and no earlier accepted pair of the reply has taken one of its endpoints
isAccepted[i \in 1..Len(replyPairs)] ==
    /\ mayBeAccepted(i)
    /\ \A j \in 1..(i - 1) :
          isAccepted[j] =>
              /\ replyPairs[j].gongNormalizedName # replyPairs[i].gongNormalizedName
              /\ replyPairs[j].grainNormalizedName # replyPairs[i].grainNormalizedName

acceptedPairs == {i \in 1..Len(replyPairs) : isAccepted[i]}

isMatchOfPair(m, i) ==
    /\ m.matchReason = "llm"
    /\ gongKeyOf(m) = replyPairs[i].gongNormalizedName
    /\ grainKeyOf(m) = replyPairs[i].grainNormalizedName
    /\ m.confidence = replyPairs[i].confidence

withoutId(m) == [m EXCEPT !.id = <<>>]

\* C23: the assisted pass accepts a returned pair only under its three conditions.
\* When the collaborator has replied, the returned list holds one match of reason
\* "llm" for each pair of the reply whose keys both name discovered accounts,
\* whose endpoints neither an earlier pass nor an earlier accepted pair of the
\* reply had matched, and whose confidence is at least 0.75; it holds no other
\* match of reason "llm", and its other matches are exactly those of the exact and
\* heuristic passes.
C23_AssistedPairAcceptedOnlyIfFree ==
    (mPc = "done" /\ IsSome(mReply)) =>
        /\ \A k \in 1..Len(matched) :
              matched[k].matchReason = "llm" =>
                  \E i \in acceptedPairs : isMatchOfPair(matched[k], i)
        /\ \A i \in acceptedPairs :
              \E k \in 1..Len(matched) : isMatchOfPair(matched[k], i)
        /\ Len(matched) = Len(localMatches) + Cardinality(acceptedPairs)
        /\ {withoutId(matched[k]) : k \in {n \in 1..Len(matched) : matched[n].matchReason # "llm"}}
              = SeqToSet(localMatches)

\* a reply whose first pair is accepted and whose second pair is ignored only
\* because the first has taken its Grain endpoint
C23_Witness ==
    /\ mPc = "done" /\ IsSome(mReply)
    /\ Len(replyPairs) = 2
    /\ acceptedPairs = {1}
    /\ mayBeAccepted(2)
    /\ Len(localMatches) >= 1


(***************************************************************************)
(* Specification of the heuristic similarity: nameSimilarity is applied to *)
(* two normalized keys.                                                    *)
(***************************************************************************)
\* A key is made of at most MaxTokens of these tokens, separated by single spaces
KeyTokens == {<<"x">>, <<"a","b">>, <<"c","a","b">>}

MaxTokens == 3

RECURSIVE joinTokens(_)
joinTokens(tokens) ==
    IF tokens = <<>> THEN <<>>
    ELSE IF Len(tokens) = 1 THEN tokens[1]
    ELSE tokens[1] \o <<" ">> \o joinTokens(Tail(tokens))

SimilarityKeys ==
    {key \in {joinTokens(tokens) : tokens \in SeqsUpTo(KeyTokens, MaxTokens)} :
        normalizeAccountName(key) = key}

InitSimilarity ==
    /\ sA \in SimilarityKeys
    /\ sB \in SimilarityKeys
    /\ sScore = None
    /\ NormIdle /\ CompositeIdle /\ FlowIdle
    /\ DedupeIdle /\ QuotesIdle /\ MatchIdle

\* account-matcher.ts:71: const score = nameSimilarity(gongNormalized, grainNormalized)
ScoreKeys ==
    /\ sScore = None
    /\ sScore' = Some(nameSimilarity(sA, sB))
    /\ UNCHANGED <<sA, sB, normVars, compVars, flowVars, dedupeVars, quoteVars, matchVars>>

NextSimilarity == ScoreKeys

SpecSimilarity == InitSimilarity /\ [][NextSimilarity]_vars


\* the tokens of a key that are longer than one character
tokensOf(key) == {t \in SeqToSet(split(key)) : Len(t) > 1}

overlapRatio(a, b) ==
    <<Cardinality(tokensOf(a) \cap tokensOf(b)),
      Max2(Cardinality(tokensOf(a)), Cardinality(tokensOf(b)))>>

oneContainsOther(a, b) == includes(a, b) \/ includes(b, a)

returnedClaims == Val(xResult).claims

\* the candidate claims of the reply to call k, as the document gives them
candidateClaims(k) == IF xReplies[k].kind = "json" THEN xReplies[k].claims ELSE <<>>
candidateQuotes(k) == IF xReplies[k].kind = "json" THEN xReplies[k].quotes ELSE <<>>

\* a field of a candidate, trimmed; empty when it is missing
textOf(field) == IF IsSome(field) THEN trim(Val(field)) ELSE <<>>

passesVerbatimTest(text, call) ==
    /\ Len(normalize(text)) >= MinQuoteLength
    /\ includes(normalize(call.transcriptText), normalize(text))

showsNumber(candidate) ==
    \/ matchesNumericPattern(textOf(candidate.claim))
    \/ matchesNumericPattern(textOf(candidate.value))
    \/ matchesNumericPattern(textOf(candidate.evidenceQuote))

claimStemsFrom(c, k, candidate) ==
    /\ c.claim = textOf(candidate.claim)
    /\ c.value = textOf(candidate.value)
    /\ c.evidenceQuote = textOf(candidate.evidenceQuote)
    /\ c.sourceCallTitle = xCalls[k].title
    /\ c.sourceCallDate = xCalls[k].occurredAt

claimWasAdmissible(c) ==
    \E k \in 1..Len(xReplies) :
        \E j \in 1..Len(candidateClaims(k)) :
            /\ claimStemsFrom(c, k, candidateClaims(k)[j])
            /\ passesVerbatimTest(textOf(candidateClaims(k)[j].evidenceQuote), xCalls[k])
            /\ showsNumber(candidateClaims(k)[j])

onlyAdmissibleClaims ==
    /\ \A i \in 1..Len(xClaims) : claimWasAdmissible(xClaims[i])
    /\ IsSome(xResult) => \A i \in 1..Len(returnedClaims) : claimWasAdmissible(returnedClaims[i])

\* a reply, whatever its candidates, is followed by the next step of the loop
replyRaisesNoError == Len(xReplies') > Len(xReplies) => xPc' = "loop"

\* C25: a quantitative claim is admitted only with verbatim evidence and a numeric
\* signal.  Every claim extractFromCalls has accumulated or returned stems from a
\* candidate of a reply whose evidence quote has a normalized length of at least
\* 16 and is a substring of the normalized transcript of the call the reply was
\* for, and whose claim text, value or evidence quote matches NUMERIC_PATTERN; and
\* no reply makes the extraction fail, whatever candidates it holds.
C25_ClaimNeedsEvidenceAndNumber ==
    [](onlyAdmissibleClaims) /\ [][replyRaisesNoError]_vars

\* a returned extraction for one call whose reply held three candidate claims: one
\* admitted, one with verbatim evidence and no numeric signal, one with a numeric
\* signal and evidence absent from the transcript
C25_Witness ==
    /\ IsSome(xResult) /\ Len(xCalls) = 1
    /\ Len(candidateClaims(1)) = 3
    /\ Len(returnedClaims) = 1
    /\ \E j \in 1..3 :
          /\ passesVerbatimTest(textOf(candidateClaims(1)[j].evidenceQuote), xCalls[1])
          /\ ~showsNumber(candidateClaims(1)[j])
    /\ \E j \in 1..3 :
          /\ ~passesVerbatimTest(textOf(candidateClaims(1)[j].evidenceQuote), xCalls[1])
          /\ showsNumber(candidateClaims(1)[j])


\* segment i of the call contains, or is contained by, the quote, after normalization
segmentMatches(call, i, quote) ==
    \/ includes(normalize(call.segments[i].text), normalize(quote))
    \/ includes(normalize(quote), normalize(call.segments[i].text))

\* the first such segment, 0 when there is none
firstMatchingSegment(call, quote) ==
    IF \E i \in 1..Len(call.segments) : segmentMatches(call, i, quote)
    THEN CHOOSE i \in 1..Len(call.segments) :
            /\ segmentMatches(call, i, quote)
            /\ \A j \in 1..(i - 1) : ~segmentMatches(call, j, quote)
    ELSE 0

segmentSpeaker(call, i) == IF i = 0 THEN None ELSE call.segments[i].speaker
segmentStartMs(call, i) == IF i = 0 THEN None ELSE call.segments[i].startMs

quoteStemsFrom(q, k, candidate) ==
    /\ q.quote = textOf(candidate.quote)
    /\ q.confidence = boundConfidence(candidate.confidence)
    /\ q.sourceCallTitle = xCalls[k].title
    /\ q.sourceCallDate = xCalls[k].occurredAt

\* the attribution of q is that of the candidate, completed from the first
\* matching segment only when the candidate has no timestamp
backfilledWithoutTimestamp(q, call, candidate) ==
    IF IsSome(candidate.sourceTimestampMs)
    THEN /\ q.sourceTimestampMs = candidate.sourceTimestampMs
         /\ q.speaker = candidate.speaker
    ELSE /\ q.sourceTimestampMs = segmentStartMs(call, firstMatchingSegment(call, q.quote))
         /\ q.speaker = IF IsSome(candidate.speaker) THEN candidate.speaker
                        ELSE segmentSpeaker(call, firstMatchingSegment(call, q.quote))

\* C26: attribution backfill only fills what the extractor left out.  Every quote
\* extractFromCalls admits stems from a candidate of a reply such that, if the
\* candidate has no timestamp, the quote has the startMs of the first segment whose
\* normalized text contains or is contained by the normalized quote, and that
\* segment's speaker unless the candidate names one (null when no segment matches),
\* and, if the candidate has a timestamp, the quote has the candidate's timestamp
\* and speaker and nothing of a segment.
C26_BackfillOnlyWithoutTimestamp ==
    \A i \in 1..Len(xQuotes) :
        \E k \in 1..Len(xReplies) :
            \E j \in 1..Len(candidateQuotes(k)) :
                /\ quoteStemsFrom(xQuotes[i], k, candidateQuotes(k)[j])
                /\ backfilledWithoutTimestamp(xQuotes[i], xCalls[k], candidateQuotes(k)[j])

\* each of the two fields is completed on its own
backfilledPerField(q, call, candidate) ==
    /\ q.sourceTimestampMs = IF IsSome(candidate.sourceTimestampMs)
                             THEN candidate.sourceTimestampMs
                             ELSE segmentStartMs(call, firstMatchingSegment(call, q.quote))
    /\ q.speaker = IF IsSome(candidate.speaker) THEN candidate.speaker
                   ELSE segmentSpeaker(call, firstMatchingSegment(call, q.quote))

\* C26, field by field: every quote extractFromCalls admits stems from a candidate
\* of a reply such that the quote's timestamp is the candidate's, or, when the
\* candidate has none, the startMs of the first segment whose normalized text
\* contains or is contained by the normalized quote; and the quote's speaker is
\* the candidate's, or, when the candidate names none, the speaker of that
\* segment, whether or not the candidate has a timestamp; a field is null when
\* neither the candidate nor a matching segment provides it.
C26_BackfillPerField ==
    \A i \in 1..Len(xQuotes) :
        \E k \in 1..Len(xReplies) :
            \E j \in 1..Len(candidateQuotes(k)) :
                /\ quoteStemsFrom(xQuotes[i], k, candidateQuotes(k)[j])
                /\ backfilledPerField(xQuotes[i], xCalls[k], candidateQuotes(k)[j])

\* an admitted quote whose candidate had a timestamp and no speaker, and whose
\* speaker is that of the first matching segment
C26_Witness ==
    /\ Len(xCalls) = 1 /\ Len(xReplies) = 1
    /\ \E i \in 1..Len(xQuotes) :
          \E j \in 1..Len(candidateQuotes(1)) :
              /\ quoteStemsFrom(xQuotes[i], 1, candidateQuotes(1)[j])
              /\ IsSome(candidateQuotes(1)[j].sourceTimestampMs)
              /\ ~IsSome(candidateQuotes(1)[j].speaker)
              /\ xQuotes[i].sourceTimestampMs = candidateQuotes(1)[j].sourceTimestampMs
              /\ IsSome(xQuotes[i].speaker)
              /\ xQuotes[i].speaker
                    = segmentSpeaker(xCalls[1], firstMatchingSegment(xCalls[1], xQuotes[i].quote))

\* the entries of list that no earlier entry of list shares its key with, in the
\* order of list
firstsByKey(list, K(_)) ==
    LET firsts[n \in 0..Len(list)] ==
            IF n = 0 THEN <<>>
            ELSE IF \E j \in 1..(n - 1) : K(list[j]) = K(list[n])
                 THEN firsts[n - 1]
                 ELSE Append(firsts[n - 1], list[n])
    IN firsts[Len(list)]

quoteTuple(q) == <<q.sourceCallId, toLowerCase(q.quote)>>
claimTuple(c) == <<c.sourceCallId, toLowerCase(c.claim), toLowerCase(c.value)>>

\* C27: the returned evidence holds one entry per key.  The quotes extractFromCalls
\* returns are the admitted quotes that no quote admitted earlier shares the pair
\* (sourceCallId, lower-cased quote) with, in the order of admission, and the
\* claims it returns are the admitted claims that no claim admitted earlier shares
\* the triple (sourceCallId, lower-cased claim, lower-cased value) with, in the
\* order of admission; so no two returned entries have the same key and of the
\* entries sharing a key the first admitted is kept.
C27_OneEntryPerKey ==
    IsSome(xResult) =>
        /\ returnedQuotes = firstsByKey(xQuotes, quoteTuple)
        /\ returnedClaims = firstsByKey(xClaims, claimTuple)

\* the same with the keys as dedupeQuotes and dedupeClaims build them: the fields
\* joined into one string by "::"
C27_OneEntryPerJoinedKey ==
    IsSome(xResult) =>
        /\ returnedQuotes = firstsByKey(xQuotes, quoteKey)
        /\ returnedClaims = firstsByKey(xClaims, claimKey)

\* no two returned entries have the same pair or triple
C27_NoTwoWithSameKey ==
    IsSome(xResult) =>
        /\ \A i, j \in 1..Len(returnedQuotes) :
              i # j => quoteTuple(returnedQuotes[i]) # quoteTuple(returnedQuotes[j])
        /\ \A i, j \in 1..Len(returnedClaims) :
              i # j => claimTuple(returnedClaims[i]) # claimTuple(returnedClaims[j])


\* the requests issued and not yet answered or rejected
inFlight == Len(xRequests) - Len(xReplies) - (IF xPc = "failed" THEN 1 ELSE 0)

\* a request is issued for the call after the last one answered, and only when the
\* replies to all earlier requests have been received and their validated
\* evidence accumulated
issuedInTurn ==
    Len(xRequests') > Len(xRequests) =>
        /\ Len(xRequests') = Len(xRequests) + 1
        /\ Len(xReplies) = Len(xRequests)
        /\ inFlight = 0
        /\ xPc = "loop"
        /\ xReplies' = xReplies /\ xQuotes' = xQuotes /\ xClaims' = xClaims

oneRequestAtATime ==
    /\ inFlight \in {0, 1}
    /\ inFlight = 1 <=> xPc = "awaiting"
    /\ Len(xRequests) <= Len(xCalls)
    /\ \A i \in 1..Len(xRequests) : xRequests[i] = xCalls[i].providerCallId
    /\ xPc = "failed" => (xResult = None /\ generatorInput = None)
    /\ IsSome(xResult) => (Len(xReplies) = Len(xCalls) /\ Len(xRequests) = Len(xCalls))

\* C28: evidence extraction is sequential.  At any time at most one request to the
\* reasoning service is in flight; the requests issued so far are those for the
\* first calls of the list, in the order of the list; a request is issued only
\* when every earlier request has been answered and its reply validated; and when
\* a request has failed, extractFromCalls returns nothing and nothing is handed to
\* the generator, while a returned extraction has had a reply for every call.
C28_ExtractionIsSequential ==
    [](oneRequestAtATime) /\ [][issuedInTurn]_vars

\* the extraction of two calls failed on its second request, after the reply to
\* the first had contributed an admitted quote
C28_Witness ==
    /\ xPc = "failed"
    /\ Len(xCalls) = 2 /\ Len(xRequests) = 2 /\ Len(xReplies) = 1
    /\ Len(xQuotes) >= 1
    /\ xResult = None

====
